---- MODULE Spec2Model ----
(***************************************************************************)
(* A model of github.com/huandu/go-assert, package internal/assertion:     *)
(* the source cache (parseFile), the call-site matcher and argument        *)
(* extractor (Parser.ParseArgs), the relatedness visitor                   *)
(* (exprVisitor.Visit, IsVar), the backward assignment scan                *)
(* (findAssignments, Parser.ParseInfo), the exclusion list                 *)
(* (Parser.AddExcluded) and ParseFalseKind.                                *)
(*                                                                         *)
(* The module holds several specifications over one set of variables:      *)
(*   SpecCache  goroutines calling parseFile concurrently;                 *)
(*   SpecTerm   the relatedness visitor and IsVar, one loop turn a step;   *)
(*   SpecParse  ParseArgs, ParseInfo and Assert over bounded syntax trees; *)
(*   SpecInfo   the same over files with a range loop and exclusions;      *)
(*   SpecDecl   the same over files of several declarations;              *)
(*   SpecForeign the same with calls of another file registered;           *)
(*   SpecKind   Assert classifying its operand with ParseFalseKind;        *)
(*   SpecExcl   goroutines in AddExcluded and ParseInfo on one Parser.     *)
(***************************************************************************)
EXTENDS Integers, Sequences, FiniteSets, TLC

VARIABLES
    \* ---- SpecCache: parser.go:238-271 ----
    fileKind,       \* what os.Open / parser.ParseFile find for each filename
    fileCacheLock,  \* fileCacheLock: 0 when free, else the goroutine holding it
    fileCache,      \* fileCache: filename -> *fileAST, NoEntry when absent
    pc,             \* each goroutine's position in parseFile
    fname,          \* parseFile's filename argument, per goroutine
    fa,             \* the value read by `fa, ok := fileCache[filename]`
    ok,             \* the ok of that lookup
    tree,           \* parseFile's result f (with its fset)
    err,            \* parseFile's result err
    calls,          \* completed parseFile calls per goroutine
    started,        \* parseFile calls begun, over all goroutines
    nextTree,       \* identity of the next tree parser.ParseFile allocates
    \* history of the cache run
    opens,          \* successful os.Open calls per filename
    unlocked,       \* TRUE once the map was touched without the lock held
    stored,         \* every tree ever stored in the cache, per filename
    completedOK,    \* filenames for which a call has returned a nil error
    after,          \* the call started after such a return, per goroutine
    prev,           \* the goroutine's previous call: file, lookup result, outcome
    \* ---- SpecTerm: parser.go:475-537, a.go:179-194 ----
    tIn,            \* the expression handed to the caller of IsVar
    tCaller,        \* who runs: "Walk" (findRelatedExprs), "Use" (A.Use), "isRelated"
    tPc,            \* position: start, walk, isvar, loop, ret, done
    tStack,         \* nodes ast.Walk has still to visit, next one first
    tNode,          \* the SelectorExpr exprVisitor.Visit is looking at
    tArg,           \* IsVar's argument expr
    tX,             \* IsVar's local x
    tRet,           \* IsVar's result
    tRelated,       \* exprVisitor.Related
    \* ---- SpecParse: parser.go:67-206, 287-441; Assert ----
    pFile,          \* the tree parseFile returned for the caller's file
    pName,          \* ParseArgs' name, as its dot-separated parts
    pLine,          \* the caller's line, from findCaller
    pArgIndex,      \* ParseArgs' argIndex
    pExcluded,      \* Parser.excluded
    pPc,            \* position in Assert: start, parsed, failed, info, done
    pF,             \* ParseArgs' results f and err
    pInfo,          \* ParseInfo's result
    pOut,           \* how Assert ended: "message", "internal error" or "panic"
    \* ---- SpecKind: ParseFalseKind, assertion.go:250-302; Assert ----
    kExpr,          \* the value handed to Assert as expr interface{}
    kPc,            \* position in Assert: start, classified, passed, failing
    kRet,           \* ParseFalseKind's result
    \* ---- SpecExcl: Parser.m and Parser.excluded, parser.go:19-24, 175-190, 584-588 ----
    xLock,          \* Parser.m: 0 when free, else the goroutine holding it
    xExcluded,      \* Parser.excluded
    xPc,            \* each goroutine's position in AddExcluded or ParseInfo
    xCall,          \* AddExcluded's argument expr, per goroutine
    xNew,           \* the slice append has built and not yet stored
    xSeen,          \* the slice ParseInfo handed to findAssignments
    xArgs,          \* arguments of f.Args ParseInfo has still to handle
    xOps,           \* AddExcluded and ParseInfo calls begun
    xUnsync         \* TRUE once the list was touched without the mutex held

cacheVars == <<fileKind, fileCacheLock, fileCache, pc, fname, fa, ok, tree, err,
               calls, started, nextTree, opens, unlocked, stored, completedOK, after, prev>>

termVars == <<tIn, tCaller, tPc, tStack, tNode, tArg, tX, tRet, tRelated>>

parseVars == <<pFile, pName, pLine, pArgIndex, pExcluded, pPc, pF, pInfo, pOut>>

kindVars == <<kExpr, kPc, kRet>>

exclVars == <<xLock, xExcluded, xPc, xCall, xNew, xSeen, xArgs, xOps, xUnsync>>

\* what the steps of one specification leave alone
notCache == <<termVars, parseVars, kindVars, exclVars>>
notTerm == <<cacheVars, parseVars, kindVars, exclVars>>
notParse == <<cacheVars, termVars, kindVars, exclVars>>
notKind == <<cacheVars, termVars, parseVars, exclVars>>
notExcl == <<cacheVars, termVars, parseVars, kindVars>>

vars == <<cacheVars, termVars, parseVars, kindVars, exclVars>>

(***************************************************************************)
(* Bounds.                                                                 *)
(***************************************************************************)
NumGoroutines == 2
MaxCalls == 3

Goroutines == 1..NumGoroutines
Files == {"a_test.go", "b_test.go"}
FileKinds == {"valid", "invalid", "missing"}

NoEntry == [id |-> 0, complete |-> FALSE, file |-> ""]

\* the untyped nil as an interface{} value: no dynamic type (reflect.Invalid)
NilValue == [kind |-> "Invalid", named |-> FALSE, zero |-> TRUE, wraps |-> 0]
NoErr == "nil"
OpenError == "open error"
ParseError == "parse error"

(***************************************************************************)
(* The map operations of parseFile.                                        *)
(***************************************************************************)
\* fa, ok := fileCache[filename]
CacheLookup(cache, f) == [fa |-> cache[f], ok |-> cache[f] # NoEntry]

CacheStoreDropped(cache, f, entry) == cache

\* fileCache[filename] = &fileAST{...}
CacheStore(cache, f, entry) == [cache EXCEPT ![f] = entry]

\* f, err = parser.ParseFile(fset, filename, file, 0): a new tree on every call;
\* for content that is not valid syntax, a partial tree and an error.
ParseResult(kind, id, f) ==
    [tree |-> [id |-> id, complete |-> (kind = "valid"), file |-> f],
     err  |-> IF kind = "valid" THEN NoErr ELSE ParseError]

\* sync.Mutex.Lock returns only when no goroutine holds the mutex
LockFree(lock) == lock = 0

\* What ParseArgs makes of parseFile's result: the error, or a Func computed
\* from the tree.
Outcome(e, t) == [err |-> e, ast |-> IF e = NoErr THEN t.complete ELSE FALSE,
                  func |-> e = NoErr]

NoPrev == [file |-> "", hit |-> FALSE, outcome |-> Outcome(OpenError, NoEntry)]

(***************************************************************************)
(* Syntax trees (go/ast).  A node, statement or expression, is a record    *)
(*   [k, name, n, sub, pos, end]                                           *)
(* k the node type, name the identifier, selector, operator or token, sub  *)
(* the child nodes in ast.Walk's order, n the number of left-hand sides of *)
(* an assignment (of key and value of a range clause), pos and end the     *)
(* node's Pos() and End().  A position is LineWidth * line + column.  Two  *)
(* nodes are the same node (Go's pointer equality) when the records are    *)
(* equal: no two nodes of one type share a position.                       *)
(***************************************************************************)
LineWidth == 100
At(line, col) == LineWidth * line + col
\* fset.Position(p).Line
LineOf(p) == p \div LineWidth

NilExpr == [k |-> "nil", name |-> "", n |-> 0, sub |-> <<>>, pos |-> 0, end |-> 0]

\* *ast.Ident
Ident(nm, p) ==
    [k |-> "Ident", name |-> nm, n |-> 0, sub |-> <<>>, pos |-> p, end |-> p + Len(nm)]
\* *ast.BasicLit
Lit(nm, p) ==
    [k |-> "Lit", name |-> nm, n |-> 0, sub |-> <<>>, pos |-> p, end |-> p + Len(nm)]
\* *ast.SelectorExpr X.Sel; its Pos() is X.Pos()
Sel(x, nm) ==
    [k |-> "Sel", name |-> nm, n |-> 0, sub |-> <<x>>, pos |-> x.pos,
     end |-> x.end + 1 + Len(nm)]
\* *ast.UnaryExpr Op X; its Pos() is OpPos
Unary(op, x) ==
    [k |-> "Unary", name |-> op, n |-> 0, sub |-> <<x>>, pos |-> x.pos - 1, end |-> x.end]
\* *ast.BinaryExpr X Op Y; its Pos() is X.Pos()
Binary(x, op, y) ==
    [k |-> "Binary", name |-> op, n |-> 0, sub |-> <<x, y>>, pos |-> x.pos, end |-> y.end]
\* *ast.TypeAssertExpr X.(type)
TypeAssert(x) ==
    [k |-> "TypeAssert", name |-> "type", n |-> 0, sub |-> <<x>>, pos |-> x.pos,
     end |-> x.end + 3]
\* *ast.CallExpr Fun(Args...); its Pos() is Fun.Pos(), its End() follows Rparen
CallExpr(fun, args, rparen) ==
    [k |-> "Call", name |-> "", n |-> 0, sub |-> <<fun>> \o args, pos |-> fun.pos,
     end |-> rparen + 1]

\* SelectorExpr.X, UnaryExpr.X
X(e) == e.sub[1]
\* CallExpr.Fun, CallExpr.Args
Fun(call) == call.sub[1]
Args(call) == Tail(call.sub)

RECURSIVE Chain(_, _)
\* the dotted chain names[1].names[2]. ... starting at position p
Chain(names, p) ==
    IF Len(names) = 1 THEN Ident(names[1], p)
    ELSE Sel(Chain(SubSeq(names, 1, Len(names) - 1), p), names[Len(names)])

(***************************************************************************)
(* Statements and declarations, in the same record shape.                  *)
(***************************************************************************)
\* *ast.AssignStmt Lhs Tok Rhs
AssignStmt(lhs, tok, rhs) ==
    [k |-> "Assign", name |-> tok, n |-> Len(lhs), sub |-> lhs \o rhs,
     pos |-> lhs[1].pos, end |-> rhs[Len(rhs)].end]
\* *ast.ExprStmt
ExprStmt(x) ==
    [k |-> "ExprStmt", name |-> "", n |-> 0, sub |-> <<x>>, pos |-> x.pos, end |-> x.end]
\* *ast.BlockStmt { List }
BlockStmt(lbrace, list, rbrace) ==
    [k |-> "Block", name |-> "", n |-> 0, sub |-> list, pos |-> lbrace, end |-> rbrace + 1]
\* *ast.IfStmt: if Init; Cond Body  (Init may be nil)
IfStmt(p, init, cond, body) ==
    [k |-> "If", name |-> "if", n |-> Len(init), sub |-> init \o <<cond, body>>,
     pos |-> p, end |-> body.end]
\* *ast.RangeStmt: for Key, Value := range X Body  (Key, Value may be nil)
RangeStmt(p, keyValue, x, body) ==
    [k |-> "Range", name |-> ":=", n |-> Len(keyValue), sub |-> keyValue \o <<x, body>>,
     pos |-> p, end |-> body.end]
\* *ast.FuncLit func() Body
FuncLit(p, body) ==
    [k |-> "FuncLit", name |-> "func", n |-> 0, sub |-> <<body>>, pos |-> p, end |-> body.end]
\* *ast.FuncDecl func Name() Body
FuncDecl(nm, p, body) ==
    [k |-> "FuncDecl", name |-> nm, n |-> 0, sub |-> <<body>>, pos |-> p, end |-> body.end]
\* *ast.GenDecl var Name = Value (file-level code)
GenDecl(p, nm, value) ==
    [k |-> "GenDecl", name |-> "var", n |-> 1, sub |-> <<Ident(nm, p + 4), value>>,
     pos |-> p, end |-> value.end]
\* *ast.File
File(decls) ==
    [k |-> "File", name |-> "", n |-> 0, sub |-> decls, pos |-> At(0, 1),
     end |-> decls[Len(decls)].end]

\* the node types that implement ast.Stmt
StmtKinds == {"Assign", "ExprStmt", "Block", "If", "Range"}
\* `node, ok := n.(ast.Stmt)`
IsStmt(n) == n.k \in StmtKinds

\* AssignStmt.Lhs, AssignStmt.Rhs
Lhs(assign) == SubSeq(assign.sub, 1, assign.n)
Rhs(assign) == SubSeq(assign.sub, assign.n + 1, Len(assign.sub))
\* RangeStmt.Key, RangeStmt.Value (NilExpr for nil), RangeStmt.X, RangeStmt.Body
RangeKey(rng) == IF rng.n >= 1 THEN rng.sub[1] ELSE NilExpr
RangeValue(rng) == IF rng.n >= 2 THEN rng.sub[2] ELSE NilExpr
RangeX(rng) == rng.sub[rng.n + 1]
RangeBody(rng) == rng.sub[rng.n + 2]

RECURSIVE SeqsOfLen(_, _)
SeqsOfLen(S, n) ==
    IF n = 0 THEN {<<>>}
    ELSE {Append(q, x) : q \in SeqsOfLen(S, n - 1), x \in S}

\* the set of the elements of a sequence
Range(seq) == {seq[k] : k \in 1..Len(seq)}

RECURSIVE ConcatAll(_)
ConcatAll(ss) == IF ss = <<>> THEN <<>> ELSE Head(ss) \o ConcatAll(Tail(ss))

RECURSIVE PreOrder(_)
\* The nodes ast.Inspect reaches from n when f always returns true, in the order
\* it calls f on them; size is the number of nodes of the subtree, so that a
\* `return false` at entry i resumes at entry i + size.
PreOrder(n) ==
    LET kids == ConcatAll([i \in 1..Len(n.sub) |-> PreOrder(n.sub[i])])
    IN  <<[node |-> n, size |-> 1 + Len(kids)]>> \o kids

(***************************************************************************)
(* The pure functions of parser.go.  formatNode gives the tokens the       *)
(* printer writes, <<"a", ".", "b">> for a.b; Render gives the characters,  *)
(* "a.b", with the printer's own spacing whatever the source's was.        *)
(***************************************************************************)
RECURSIVE formatNode(_)
RECURSIVE FormatList(_)
\* formatNode (lines 273-285): "" for nil, else the printed source of the node
formatNode(n) ==
    CASE n.k = "nil"        -> <<>>
      [] n.k = "Ident"      -> <<n.name>>
      [] n.k = "Lit"        -> <<n.name>>
      [] n.k = "Sel"        -> formatNode(X(n)) \o <<".", n.name>>
      [] n.k = "Unary"      -> <<n.name>> \o formatNode(X(n))
      [] n.k = "Binary"     -> formatNode(n.sub[1]) \o <<n.name>> \o formatNode(n.sub[2])
      [] n.k = "TypeAssert" -> formatNode(X(n)) \o <<".", "(", "type", ")">>
      [] n.k = "Call"       -> formatNode(Fun(n)) \o <<"(">> \o FormatList(Args(n)) \o <<")">>
      [] n.k = "Assign"     -> FormatList(Lhs(n)) \o <<n.name>> \o FormatList(Rhs(n))
      [] n.k = "ExprStmt"   -> formatNode(n.sub[1])
      [] n.k = "Block"      ->
            <<"{">> \o ConcatAll([i \in 1..Len(n.sub) |-> formatNode(n.sub[i]) \o <<";">>])
                    \o (IF LineOf(n.end - 1) > LineOf(n.pos) THEN <<"\n">> ELSE <<>>)
                    \o <<"}">>
      [] n.k = "If"         ->
            <<"if">> \o (IF n.n = 1 THEN formatNode(n.sub[1]) \o <<";">> ELSE <<>>)
                     \o formatNode(n.sub[n.n + 1]) \o formatNode(n.sub[n.n + 2])
      [] n.k = "Range"      ->
            <<"for">> \o (IF n.n = 0 THEN <<>>
                          ELSE FormatList(SubSeq(n.sub, 1, n.n)) \o <<n.name>>)
                      \o <<"range">> \o formatNode(RangeX(n)) \o formatNode(RangeBody(n))
      [] n.k = "FuncLit"    -> <<"func", "(", ")">> \o formatNode(n.sub[1])
      [] n.k = "FuncDecl"   -> <<"func", n.name, "(", ")">> \o formatNode(n.sub[1])
      [] OTHER              -> <<>>

\* a comma-separated list of nodes
FormatList(nodes) ==
    IF nodes = <<>> THEN <<>>
    ELSE IF Len(nodes) = 1 THEN formatNode(nodes[1])
    ELSE formatNode(nodes[1]) \o <<",">> \o FormatList(Tail(nodes))

\* the printer's blank between two tokens
Sep(a, b) ==
    IF \/ b \in {",", ";", ")", ".", "(", "\n"}
       \/ a \in {"(", ".", "&", "\n"}
       \/ a = "{" /\ b = "}"
    THEN "" ELSE " "

RECURSIVE Render(_)
\* the text printer.Fprint writes for the tokens (lines 276-284)
Render(tokens) ==
    IF tokens = <<>> THEN ""
    ELSE IF Len(tokens) = 1 THEN tokens[1]
    ELSE LET init == SubSeq(tokens, 1, Len(tokens) - 1)
         IN  Render(init) \o Sep(tokens[Len(tokens) - 1], tokens[Len(tokens)])
                          \o tokens[Len(tokens)]

\* Go's code[lo:hi]: a run-time panic when the bounds are out of range
SliceBoundsPanic == "panic: slice bounds out of range"
Slice(code, lo, hi) ==
    IF lo < 0 \/ hi < lo \/ hi > Len(code) THEN SliceBoundsPanic
    ELSE SubSeq(code, lo + 1, hi)

\* strings.HasPrefix(s, prefix)
HasPrefix(str, prefix) ==
    Len(str) >= Len(prefix) /\ SubSeq(str, 1, Len(prefix)) = prefix

\* IsIncluded (lines 566-580): child is parent or parent followed by '.' ...
IsIncluded(parent, child) ==
    IF Len(child) < Len(parent) THEN FALSE
    ELSE IF parent = child THEN TRUE
    ELSE HasPrefix(child, parent) /\ child[Len(parent) + 1] = "."

\* line 525, `x = sel`: the loop's next x is the selector it has just tested
LoopNext(sel) == sel

RECURSIVE IsVarLoopEnd(_)
\* IsVar's loop (lines 523-529), run to its break: the x it leaves.  With a
\* LoopNext that hands back the selector itself the loop has no end; the
\* operator then stands for a value the code never delivers (SpecTerm shows
\* those runs).  SpecParse draws no expression of that kind.
IsVarLoopEnd(x) ==
    IF x.k = "Sel" /\ LoopNext(x) # x THEN IsVarLoopEnd(LoopNext(x)) ELSE x

\* IsVar (lines 516-537)
IsVar(expr) ==
    CASE expr.k = "Ident" -> TRUE
      [] expr.k = "Sel"   -> IsVarLoopEnd(X(expr)).k = "Ident"
      [] OTHER            -> FALSE

\* isRelated (lines 540-562)
isRelated(expr, target) ==
    IF expr = target THEN TRUE
    ELSE IF ~IsVar(target) THEN FALSE
    ELSE CASE target.k = "Sel" ->
                IF expr.k = "Ident" THEN FALSE
                ELSE IsIncluded(formatNode(target), formatNode(expr))
           [] target.k = "Ident" -> IsIncluded(<<target.name>>, formatNode(expr))
           [] OTHER -> FALSE

RECURSIVE Visit(_)
\* exprVisitor.Visit under ast.Walk (lines 475-500): the nodes put in v.Related
Visit(n) ==
    CASE n.k = "nil"   -> {}
      [] n.k = "Sel"   -> IF IsVar(X(n)) THEN {n} ELSE Visit(X(n))
      [] n.k = "Ident" -> {n}
      [] OTHER         -> UNION {Visit(n.sub[i]) : i \in 1..Len(n.sub)}

\* findRelatedExprs (lines 502-513)
findRelatedExprs(arg) == Visit(arg)

LineStopPastLine(nodeLine, line) == nodeLine > line

\* `if pos := fset.Position(n.Pos()); pos.Line >= line` (line 310)
LineStop(nodeLine, line) == nodeLine >= line

\* the AssignStmt case (lines 320-329)
AssignBinds(node, expr) ==
    \E i \in 1..node.n : node.sub[i].k = "Ident" /\ isRelated(expr, node.sub[i])

\* the RangeStmt case (lines 330-353)
RangeBinds(node, expr) ==
    /\ RangeKey(node) # NilExpr
    /\ \/ RangeKey(node).k = "Ident" /\ isRelated(expr, RangeKey(node))
       \/ /\ RangeValue(node) # NilExpr
          /\ RangeValue(node).k = "Ident" /\ isRelated(expr, RangeValue(node))

IsExcludedNever(node, excluded) == FALSE

\* `for _, call := range excluded { if node.Pos() == call.Pos() ...` (lines 355-359)
IsExcluded(node, excluded) == \E call \in excluded : node.pos = call.pos

\* the CallExpr case past the exclusions (lines 361-370)
CallBinds(node, expr) ==
    \E i \in 1..Len(Args(node)) :
        /\ Args(node)[i].k = "Unary"
        /\ Args(node)[i].name = "&"
        /\ isRelated(expr, X(Args(node)[i]))

\* whether the node records `lastStmt = stmt`
Binds(node, expr) ==
    CASE node.k = "Assign" -> AssignBinds(node, expr)
      [] node.k = "Range"  -> RangeBinds(node, expr)
      [] node.k = "Call"   -> CallBinds(node, expr)
      [] OTHER             -> FALSE

\* `return false` without `done`: ast.Inspect skips the node's children
Prunes(node, excluded) == node.k = "Call" /\ IsExcluded(node, excluded)

RecordFirst(lastStmt, stmt) == IF lastStmt = NilExpr THEN stmt ELSE lastStmt

\* `lastStmt = stmt` (lines 325, 338, 350, 366): the newest match replaces
\* the one before
Record(lastStmt, stmt) == stmt

RECURSIVE Scan(_, _, _, _, _, _, _)
\* The ast.Inspect of findAssignments for one related expr (lines 303-374),
\* from entry i of decl's nodes on: the lastStmt it ends with.
Scan(list, i, stmt, lastStmt, expr, line, excluded) ==
    IF i > Len(list) THEN lastStmt
    ELSE LET node == list[i].node
             stmt2 == IF IsStmt(node) THEN node ELSE stmt
         IN  IF LineStop(LineOf(node.pos), line) THEN lastStmt
             ELSE IF Prunes(node, excluded)
                  THEN Scan(list, i + list[i].size, stmt2, lastStmt, expr, line, excluded)
                  ELSE Scan(list, i + 1, stmt2,
                            IF Binds(node, expr) THEN Record(lastStmt, stmt2) ELSE lastStmt,
                            expr, line, excluded)

\* lastStmt for expr (NilExpr when nil)
LastStmt(decl, line, expr, excluded) ==
    Scan(PreOrder(decl), 1, NilExpr, NilExpr, expr, line, excluded)

RECURSIVE SortByPos(_)
\* sort.Sort(sortByStmts(stmts)) (lines 427, 443-447)
SortByPos(stmts) ==
    IF stmts = {} THEN <<>>
    ELSE LET first == CHOOSE x \in stmts : \A y \in stmts : x.pos <= y.pos
         IN  <<first>> \o SortByPos(stmts \ {first})

StmtExprsLhsOnly(stmt) ==
    CASE stmt.k = "Assign" -> Range(Lhs(stmt))
      [] stmt.k = "Range"  -> {RangeKey(stmt), RangeValue(stmt)} \ {NilExpr}
      [] OTHER             -> {}

StmtExprsKeyOnly(stmt) ==
    CASE stmt.k = "Assign" -> {stmt.sub[i] : i \in 1..Len(stmt.sub)}
      [] stmt.k = "Range"  -> {RangeKey(stmt)} \ {NilExpr}
      [] OTHER             -> {}

\* the exprs a retained statement adds to relatedExprs (lines 386-408)
StmtExprs(stmt) ==
    CASE stmt.k = "Assign" -> {stmt.sub[i] : i \in 1..Len(stmt.sub)}
      [] stmt.k = "Range"  -> {RangeKey(stmt), RangeValue(stmt)} \ {NilExpr}
      [] OTHER             -> {}

\* the source of a retained statement (lines 392-399, 428-437): the printed
\* text; for a RangeStmt the printed text of the statement with its body
\* emptied, cut at the offsets Key and X have in the source file
StmtCode(stmt) ==
    IF stmt.k = "Range"
    THEN LET code == Render(formatNode([stmt EXCEPT !.sub[stmt.n + 2].sub = <<>>]))
             start == stmt.pos
         IN  Slice(code, RangeKey(stmt).pos - start, RangeX(stmt).end - start)
    ELSE Render(formatNode(stmt))

\* findAssignments (lines 287-441); stmts holds the retained statements in
\* the order of assignments
findAssignments(decl, line, arg, excluded) ==
    IF decl = NilExpr \/ arg = NilExpr
    THEN [assignments |-> <<>>, stmts |-> <<>>, relatedVars |-> {}]
    ELSE LET src == formatNode(arg)
             exprs == findRelatedExprs(arg)
             assignmentStmts ==
                 {LastStmt(decl, line, e, excluded) : e \in exprs} \ {NilExpr}
             relatedExprs == {arg} \cup UNION {StmtExprs(st) : st \in assignmentStmts}
             related == UNION {findRelatedExprs(e) : e \in relatedExprs}
             stmts == SortByPos(assignmentStmts)
         IN  IF exprs = {}
             THEN [assignments |-> <<>>, stmts |-> <<>>, relatedVars |-> {}]
             ELSE [assignments |-> [i \in 1..Len(stmts) |-> StmtCode(stmts[i])],
                   stmts |-> stmts,
                   relatedVars |-> {formatNode(e) : e \in related} \ {src}]

\* `switch expr := call.Fun.(type)` (lines 121-127)
CalleeName(call) ==
    CASE Fun(call).k = "Ident" -> Fun(call).name
      [] Fun(call).k = "Sel"   -> Fun(call).name
      [] OTHER                 -> ""

\* name[strings.LastIndex(name, ".")+1:] (lines 79-83); a name is the sequence
\* of its dot-separated parts
SimpleName(name) == name[Len(name)]

\* the call expression ParseArgs accepts (lines 115-138)
Matches(node, name, line) ==
    /\ node.k = "Call"
    /\ CalleeName(node) = name
    /\ ~(line < LineOf(node.pos) \/ line > LineOf(node.end))

ExtractArgsClamped(call, argIndex) ==
    [i \in 1..Len(argIndex) |->
        LET idx == IF argIndex[i] < 0 THEN argIndex[i] + Len(Args(call)) ELSE argIndex[i]
        IN  IF Len(Args(call)) = 0 THEN NilExpr
            ELSE IF idx < 0 THEN Args(call)[1]
            ELSE IF idx >= Len(Args(call)) THEN Args(call)[Len(Args(call))]
            ELSE Args(call)[idx + 1]]

ExtractArgsNoWrap(call, argIndex) ==
    [i \in 1..Len(argIndex) |->
        IF argIndex[i] < 0 \/ argIndex[i] >= Len(Args(call)) THEN NilExpr
        ELSE Args(call)[argIndex[i] + 1]]

\* the slots of the matched call (lines 142-155)
ExtractArgs(call, argIndex) ==
    [i \in 1..Len(argIndex) |->
        LET idx == IF argIndex[i] < 0 THEN argIndex[i] + Len(Args(call)) ELSE argIndex[i]
        IN  IF idx < 0 \/ idx >= Len(Args(call)) THEN NilExpr ELSE Args(call)[idx + 1]]

\* argExprs when the traversal ends without a match (line 94)
NoArgs(argIndex) == <<>>

\* the most recently entered FuncDecl among the first k nodes (lines 110-113)
LastFuncDecl(list, k) ==
    LET S == {i \in 1..k : list[i].node.k = "FuncDecl"}
    IN  IF S = {} THEN NilExpr
        ELSE list[CHOOSE i \in S : \A j \in S : j <= i].node

ParseArgsLastMatch(file, name, line, argIndex) ==
    IF Len(argIndex) = 0
    THEN [err |-> "missing argIndex", Func |-> NilExpr, Caller |-> NilExpr,
          Args |-> <<>>, Line |-> 0]
    ELSE LET list == PreOrder(file)
             hits == {i \in 1..Len(list) : Matches(list[i].node, SimpleName(name), line)}
             hit == IF hits = {} THEN 0 ELSE CHOOSE i \in hits : \A j \in hits : j <= i
         IN  IF hit = 0
             THEN [err |-> NoErr, Func |-> LastFuncDecl(list, Len(list)),
                   Caller |-> NilExpr, Args |-> NoArgs(argIndex), Line |-> line]
             ELSE [err |-> NoErr, Func |-> LastFuncDecl(list, hit),
                   Caller |-> list[hit].node,
                   Args |-> ExtractArgs(list[hit].node, argIndex), Line |-> line]

\* ParseArgs (lines 67-171) once findCaller and parseFile have returned
\* filename, line and the tree without an error
ParseArgs(file, name, line, argIndex) ==
    IF Len(argIndex) = 0
    THEN [err |-> "missing argIndex", Func |-> NilExpr, Caller |-> NilExpr,
          Args |-> <<>>, Line |-> 0]
    ELSE LET list == PreOrder(file)
             hits == {i \in 1..Len(list) : Matches(list[i].node, SimpleName(name), line)}
             hit == IF hits = {} THEN 0 ELSE CHOOSE i \in hits : \A j \in hits : i <= j
         IN  IF hit = 0
             THEN [err |-> NoErr, Func |-> LastFuncDecl(list, Len(list)),
                   Caller |-> NilExpr, Args |-> NoArgs(argIndex), Line |-> line]
             ELSE [err |-> NoErr, Func |-> LastFuncDecl(list, hit),
                   Caller |-> list[hit].node,
                   Args |-> ExtractArgs(list[hit].node, argIndex), Line |-> line]

\* ParseInfo (lines 175-206); RelatedVars is the sorted list of the set given
\* here, Stmts the statements behind Assignments
ParseInfo(f, excluded) ==
    LET found == [i \in 1..Len(f.Args) |->
                     findAssignments(f.Func, f.Line, f.Args[i], excluded)]
    IN  [Source |-> formatNode(f.Caller),
         Args |-> [i \in 1..Len(f.Args) |-> formatNode(f.Args[i])],
         Assignments |-> [i \in 1..Len(f.Args) |-> found[i].assignments],
         Stmts |-> [i \in 1..Len(f.Args) |-> found[i].stmts],
         RelatedVars |-> UNION {found[i].relatedVars : i \in 1..Len(f.Args)}]

\* the cache is empty, the lock is free, no goroutine is inside parseFile
CacheStart ==
    /\ fileCacheLock = 0
    /\ fileCache = [f \in Files |-> NoEntry]
    /\ pc = [g \in Goroutines |-> "idle"]
    /\ fname = [g \in Goroutines |-> ""]
    /\ fa = [g \in Goroutines |-> NoEntry]
    /\ ok = [g \in Goroutines |-> FALSE]
    /\ tree = [g \in Goroutines |-> NoEntry]
    /\ err = [g \in Goroutines |-> NoErr]
    /\ calls = [g \in Goroutines |-> 0]
    /\ started = 0
    /\ nextTree = 1
    /\ opens = [f \in Files |-> 0]
    /\ unlocked = FALSE
    /\ stored = [f \in Files |-> {}]
    /\ completedOK = {}
    /\ after = [g \in Goroutines |-> FALSE]
    /\ prev = [g \in Goroutines |-> NoPrev]

InitCache ==
    /\ fileKind \in [Files -> FileKinds]
    /\ CacheStart

\* the cache variables while another specification runs
InitCacheIdle ==
    /\ fileKind = [f \in Files |-> "valid"]
    /\ CacheStart

NoFunc == [err |-> NoErr, Func |-> NilExpr, Caller |-> NilExpr, Args |-> <<>>, Line |-> 0]
NoInfo == [Source |-> <<>>, Args |-> <<>>, Assignments |-> <<>>, Stmts |-> <<>>,
           RelatedVars |-> {}]

\* the parser variables while another specification runs
InitParseIdle ==
    /\ pFile = NilExpr
    /\ pName = <<"">>
    /\ pLine = 0
    /\ pArgIndex = <<>>
    /\ pExcluded = {}
    /\ pPc = "idle"
    /\ pF = NoFunc
    /\ pInfo = NoInfo
    /\ pOut = ""

\* the classification variables while another specification runs
InitKindIdle ==
    /\ kExpr = NilValue
    /\ kPc = "idle"
    /\ kRet = "Positive"

\* the exclusion list while another specification runs
InitExclIdle ==
    /\ xLock = 0
    /\ xExcluded = <<>>
    /\ xPc = [g \in Goroutines |-> "idle"]
    /\ xCall = [g \in Goroutines |-> 0]
    /\ xNew = [g \in Goroutines |-> <<>>]
    /\ xSeen = [g \in Goroutines |-> <<>>]
    /\ xArgs = [g \in Goroutines |-> 0]
    /\ xOps = 0
    /\ xUnsync = FALSE

\* everything outside the parser while a parser specification runs
InitOthersIdle == InitKindIdle /\ InitExclIdle

\* the visitor variables while another specification runs
InitTermIdle ==
    /\ tIn = NilExpr
    /\ tCaller = "Walk"
    /\ tPc = "idle"
    /\ tStack = <<>>
    /\ tNode = NilExpr
    /\ tArg = NilExpr
    /\ tX = NilExpr
    /\ tRet = FALSE
    /\ tRelated = {}

\* A goroutine enters parseFile(filename).
Call(g, f) ==
    /\ pc[g] = "idle"
    /\ started < MaxCalls
    /\ started' = started + 1
    /\ pc' = [pc EXCEPT ![g] = "lock1"]
    /\ fname' = [fname EXCEPT ![g] = f]
    /\ fa' = [fa EXCEPT ![g] = NoEntry]
    /\ ok' = [ok EXCEPT ![g] = FALSE]
    /\ tree' = [tree EXCEPT ![g] = NoEntry]
    /\ err' = [err EXCEPT ![g] = NoErr]
    /\ after' = [after EXCEPT ![g] = (f \in completedOK)]
    /\ UNCHANGED <<notCache, fileKind, fileCacheLock, fileCache, calls, nextTree, opens,
                   unlocked, stored, completedOK, prev>>

\* fileCacheLock.Lock()  (line 244)
Lock1(g) ==
    /\ pc[g] = "lock1"
    /\ LockFree(fileCacheLock)
    /\ fileCacheLock' = g
    /\ pc' = [pc EXCEPT ![g] = "lookup"]
    /\ UNCHANGED <<notCache, fileKind, fileCache, fname, fa, ok, tree, err, calls, started, nextTree,
                   opens, unlocked, stored, completedOK, after, prev>>

\* fa, ok := fileCache[filename]  (line 245)
Lookup(g) ==
    /\ pc[g] = "lookup"
    /\ fa' = [fa EXCEPT ![g] = CacheLookup(fileCache, fname[g]).fa]
    /\ ok' = [ok EXCEPT ![g] = CacheLookup(fileCache, fname[g]).ok]
    /\ unlocked' = (unlocked \/ fileCacheLock # g)
    /\ pc' = [pc EXCEPT ![g] = "unlock1"]
    /\ UNCHANGED <<notCache, fileKind, fileCacheLock, fileCache, fname, tree, err, calls,
                   started, nextTree, opens, stored, completedOK, after, prev>>

\* fileCacheLock.Unlock(); if ok { fset = fa.FileSet; f = fa.File; return }
\* (lines 246-252)
Unlock1(g) ==
    /\ pc[g] = "unlock1"
    /\ fileCacheLock' = IF fileCacheLock = g THEN 0 ELSE fileCacheLock
    /\ IF ok[g]
       THEN /\ tree' = [tree EXCEPT ![g] = fa[g]]
            /\ pc' = [pc EXCEPT ![g] = "done"]
       ELSE /\ tree' = tree
            /\ pc' = [pc EXCEPT ![g] = "open"]
    /\ UNCHANGED <<notCache, fileKind, fileCache, fname, fa, ok, err, calls, started, nextTree, opens,
                   unlocked, stored, completedOK, after, prev>>

OpenCachesFailure(g) ==
    /\ pc[g] = "open"
    /\ IF fileKind[fname[g]] = "missing"
       THEN /\ err' = [err EXCEPT ![g] = OpenError]
            /\ pc' = [pc EXCEPT ![g] = "done"]
            /\ opens' = opens
            /\ fileCache' = CacheStore(fileCache, fname[g],
                                       [id |-> 0, complete |-> FALSE, file |-> fname[g]])
       ELSE /\ err' = err
            /\ pc' = [pc EXCEPT ![g] = "parse"]
            /\ opens' = [opens EXCEPT ![fname[g]] = @ + 1]
            /\ fileCache' = fileCache
    /\ UNCHANGED <<notCache, fileKind, fileCacheLock, fname, fa, ok, tree, calls,
                   started, nextTree, unlocked, stored, completedOK, after, prev>>

\* file, err := os.Open(filename); if err != nil { return }  (lines 254-258)
Open(g) ==
    /\ pc[g] = "open"
    /\ IF fileKind[fname[g]] = "missing"
       THEN /\ err' = [err EXCEPT ![g] = OpenError]
            /\ pc' = [pc EXCEPT ![g] = "done"]
            /\ opens' = opens
       ELSE /\ err' = err
            /\ pc' = [pc EXCEPT ![g] = "parse"]
            /\ opens' = [opens EXCEPT ![fname[g]] = @ + 1]
    /\ UNCHANGED <<notCache, fileKind, fileCacheLock, fileCache, fname, fa, ok, tree, calls,
                   started, nextTree, unlocked, stored, completedOK, after, prev>>

\* fset = token.NewFileSet(); f, err = parser.ParseFile(...)  (lines 261-262)
Parse(g) ==
    /\ pc[g] = "parse"
    /\ LET r == ParseResult(fileKind[fname[g]], nextTree, fname[g])
       IN  /\ tree' = [tree EXCEPT ![g] = r.tree]
           /\ err' = [err EXCEPT ![g] = r.err]
    /\ nextTree' = nextTree + 1
    /\ pc' = [pc EXCEPT ![g] = "lock2"]
    /\ UNCHANGED <<notCache, fileKind, fileCacheLock, fileCache, fname, fa, ok, calls, started, opens,
                   unlocked, stored, completedOK, after, prev>>

\* fileCacheLock.Lock()  (line 264)
Lock2(g) ==
    /\ pc[g] = "lock2"
    /\ LockFree(fileCacheLock)
    /\ fileCacheLock' = g
    /\ pc' = [pc EXCEPT ![g] = "insert"]
    /\ UNCHANGED <<notCache, fileKind, fileCache, fname, fa, ok, tree, err, calls, started, nextTree,
                   opens, unlocked, stored, completedOK, after, prev>>

\* fileCache[filename] = &fileAST{FileSet: fset, File: f}  (lines 265-268)
Insert(g) ==
    /\ pc[g] = "insert"
    /\ fileCache' = CacheStore(fileCache, fname[g], tree[g])
    /\ stored' = [stored EXCEPT ![fname[g]] = @ \cup ({fileCache'[fname[g]]} \ {NoEntry})]
    /\ unlocked' = (unlocked \/ fileCacheLock # g)
    /\ pc' = [pc EXCEPT ![g] = "unlock2"]
    /\ UNCHANGED <<notCache, fileKind, fileCacheLock, fname, fa, ok, tree, err, calls, started, nextTree,
                   opens, completedOK, after, prev>>

\* fileCacheLock.Unlock(); return  (lines 269-270)
Unlock2(g) ==
    /\ pc[g] = "unlock2"
    /\ fileCacheLock' = IF fileCacheLock = g THEN 0 ELSE fileCacheLock
    /\ pc' = [pc EXCEPT ![g] = "done"]
    /\ UNCHANGED <<notCache, fileKind, fileCache, fname, fa, ok, tree, err, calls, started, nextTree,
                   opens, unlocked, stored, completedOK, after, prev>>

\* parseFile has returned (fset, f, err) to ParseArgs (lines 85-90); the
\* goroutine is free to resolve another call site.
Return(g) ==
    /\ pc[g] = "done"
    /\ pc' = [pc EXCEPT ![g] = "idle"]
    /\ calls' = [calls EXCEPT ![g] = @ + 1]
    /\ completedOK' = IF err[g] = NoErr THEN completedOK \cup {fname[g]} ELSE completedOK
    /\ prev' = [prev EXCEPT ![g] = [file |-> fname[g], hit |-> ok[g],
                                    outcome |-> Outcome(err[g], tree[g])]]
    /\ UNCHANGED <<notCache, fileKind, fileCacheLock, fileCache, fname, fa, ok, tree, err,
                   started, nextTree, opens, unlocked, stored, after>>

NextCache ==
    \E g \in Goroutines :
        \/ \E f \in Files : Call(g, f)
        \/ Lock1(g)
        \/ Lookup(g)
        \/ Unlock1(g)
        \/ Open(g)
        \/ Parse(g)
        \/ Lock2(g)
        \/ Insert(g)
        \/ Unlock2(g)
        \/ Return(g)

\* the goroutines and the cache, no visitor running
CacheInit == InitTermIdle /\ InitParseIdle /\ InitOthersIdle /\ InitCache

SpecCache == CacheInit /\ [][NextCache]_vars

(***************************************************************************)
(* Claims about the source cache, checked under SpecCache.                 *)
(***************************************************************************)
InFlight == {"lock1", "lookup", "unlock1", "open", "parse", "lock2", "insert", "unlock2"}
PastLookupMiss == {"open", "parse", "lock2", "insert", "unlock2"}

\* C1: when several goroutines call parseFile for the same filename while the
\* cache has no entry for it, the file is opened and parsed at most once in
\* total across all of them.
C1_AtMostOneParse == \A f \in Files : opens[f] <= 1

\* C2: under any interleaving, every read and write of the fileCache map
\* happens with fileCacheLock held, and every caller that gets a nil error
\* receives a tree produced by a parse that itself succeeded.
C2_LockedAndParsedTree ==
    /\ ~unlocked
    /\ \A g \in Goroutines : (pc[g] = "done" /\ err[g] = NoErr) => tree[g].complete

\* C6: for a file whose content is not valid syntax, every call of parseFile,
\* the first and every later one, fails with the parse error, so ParseArgs
\* returns an error.
C6_InvalidFileAlwaysFails ==
    \A g \in Goroutines :
        (pc[g] = "done" /\ fileKind[fname[g]] = "invalid")
            => (err[g] = ParseError /\ ~Outcome(err[g], tree[g]).func)

\* C7: resolving the same call site twice in sequence, first with a cold cache
\* (the lookup missed) and then with a warm one (the lookup hit), yields the
\* same outcome: the same error or absence of error and the same results.
C7_ColdWarmSameOutcome ==
    \A g \in Goroutines :
        (pc[g] = "done" /\ calls[g] > 0 /\ prev[g].file = fname[g]
           /\ ~prev[g].hit /\ ok[g])
            => Outcome(err[g], tree[g]) = prev[g].outcome

\* C8: after a parseFile call for a filename has returned a nil error, every
\* call for that filename that starts later is served from the cache: it never
\* opens or parses the file and returns a tree that was stored in the cache.
C8_LaterCallsServedFromCache ==
    \A g \in Goroutines :
        after[g] =>
            /\ pc[g] \notin PastLookupMiss
            /\ pc[g] = "done" =>
                 (ok[g] /\ err[g] = NoErr /\ tree[g] \in stored[fname[g]])

C8_Witness ==
    \E g \in Goroutines : after[g] /\ pc[g] = "done" /\ tree[g].complete

\* C23: once a parsed tree has been stored for a filename the entry is never
\* replaced or removed, and every resolution against that filename, also one
\* that raced on the first lookup, works on that one tree.
C23_OneTreePerFile ==
    /\ \A f \in Files : stored[f] # {} => stored[f] = {fileCache[f]}
    /\ \A g \in Goroutines :
          (pc[g] = "done" /\ err[g] # OpenError) => stored[fname[g]] = {tree[g]}

\* C30: when opening the file fails, parseFile returns the error and leaves
\* the cache without an entry for the filename, so a later call for it misses
\* in the cache and tries to open the file again: it never returns a cached
\* failure or a cached empty tree.
C30_OpenFailureNotCached ==
    \A f \in Files :
        fileKind[f] = "missing" =>
            /\ fileCache[f] = NoEntry
            /\ \A g \in Goroutines :
                  (fname[g] = f /\ pc[g] \in {"open", "done"}) => ~ok[g]
            /\ \A g \in Goroutines :
                  (fname[g] = f /\ pc[g] = "done") => (err[g] = OpenError /\ tree[g] = NoEntry)

\* a goroutine whose call for a file failed to open it calls again for the
\* same file and is about to open it again
C30_Witness ==
    \E g \in Goroutines :
        /\ pc[g] = "open" /\ fileKind[fname[g]] = "missing"
        /\ prev[g].file = fname[g] /\ prev[g].outcome.err = OpenError


(***************************************************************************)
(* SpecTerm: the relatedness visitor (exprVisitor.Visit under ast.Walk),   *)
(* IsVar and its callers, one node visit and one loop turn per step.       *)
(***************************************************************************)
MaxChain == 4
SegNames == {"a", "b"}

\* a, a.b, a.b.a, ... up to MaxChain segments
Chains == {Chain(q, 10) : q \in UNION {SeqsOfLen(SegNames, n) : n \in 1..MaxChain}}

\* the expressions the callers of IsVar meet: c, c(), &c, c + 1, f(c)
TermInputs ==
    Chains
    \cup {CallExpr(c, <<>>, 20) : c \in Chains}
    \cup {Unary("&", c) : c \in Chains}
    \cup {Binary(c, "+", Lit("1", 30)) : c \in Chains}
    \cup {CallExpr(Ident("f", 5), <<c>>, 20) : c \in Chains}

TermCallers == {"Walk", "Use", "isRelated"}

ChildrenPastCallee(n) == IF n.k = "Call" THEN Args(n) ELSE n.sub

\* the children ast.Walk goes on to when Visit returns the visitor itself
Children(n) == n.sub

InitTerm ==
    /\ tIn \in TermInputs
    /\ tCaller \in TermCallers
    /\ tPc = "start"
    /\ tStack = <<>>
    /\ tNode = NilExpr
    /\ tArg = NilExpr
    /\ tX = NilExpr
    /\ tRet = FALSE
    /\ tRelated = {}

\* findRelatedExprs: v := newExprVisitor(); ast.Walk(v, arg)  (lines 502-504)
WalkStart ==
    /\ tPc = "start" /\ tCaller = "Walk"
    /\ tStack' = <<tIn>>
    /\ tPc' = "walk"
    /\ UNCHANGED <<notTerm, tIn, tCaller, tNode, tArg, tX, tRet, tRelated>>

\* A.Use: arg must be `&a` or `&a.b`; then assertion.IsVar(expr.X)
\* (a.go lines 179-189)
UseStart ==
    /\ tPc = "start" /\ tCaller = "Use"
    /\ IF tIn.k = "Unary" /\ tIn.name = "&"
       THEN tArg' = X(tIn) /\ tPc' = "isvar"
       ELSE tArg' = tArg /\ tPc' = "done"
    /\ UNCHANGED <<notTerm, tIn, tCaller, tStack, tNode, tX, tRet, tRelated>>

\* the backward scan's isRelated(expr, target) for the operand of `&target`
\* in a call's arguments: `if !IsVar(target)`  (lines 365, 545)
IsRelatedStart ==
    /\ tPc = "start" /\ tCaller = "isRelated"
    /\ tArg' = (IF tIn.k = "Unary" THEN X(tIn) ELSE tIn)
    /\ tPc' = "isvar"
    /\ UNCHANGED <<notTerm, tIn, tCaller, tStack, tNode, tX, tRet, tRelated>>

\* exprVisitor.Visit on an *ast.SelectorExpr: `if IsVar(node.X)`  (line 484)
VisitSelector ==
    /\ tPc = "walk" /\ tStack # <<>> /\ Head(tStack).k = "Sel"
    /\ tNode' = Head(tStack)
    /\ tArg' = X(Head(tStack))
    /\ tStack' = Tail(tStack)
    /\ tPc' = "isvar"
    /\ UNCHANGED <<notTerm, tIn, tCaller, tX, tRet, tRelated>>

\* exprVisitor.Visit on an *ast.Ident  (lines 494-496)
VisitIdent ==
    /\ tPc = "walk" /\ tStack # <<>> /\ Head(tStack).k = "Ident"
    /\ tRelated' = tRelated \cup {Head(tStack)}
    /\ tStack' = Tail(tStack)
    /\ UNCHANGED <<notTerm, tIn, tCaller, tPc, tNode, tArg, tX, tRet>>

\* exprVisitor.Visit on any other node: `return v`, ast.Walk goes on to the
\* node's children  (line 499)
VisitOther ==
    /\ tPc = "walk" /\ tStack # <<>> /\ Head(tStack).k \notin {"Sel", "Ident"}
    /\ tStack' = Children(Head(tStack)) \o Tail(tStack)
    /\ UNCHANGED <<notTerm, tIn, tCaller, tPc, tNode, tArg, tX, tRet, tRelated>>

\* ast.Walk has returned  (lines 506-512)
WalkDone ==
    /\ tPc = "walk" /\ tStack = <<>>
    /\ tPc' = "done"
    /\ UNCHANGED <<notTerm, tIn, tCaller, tStack, tNode, tArg, tX, tRet, tRelated>>

\* IsVar: `switch n := expr.(type)`  (lines 516-521, 536)
IsVarEnter ==
    /\ tPc = "isvar"
    /\ CASE tArg.k = "Ident" -> tRet' = TRUE /\ tX' = tX /\ tPc' = "ret"
         [] tArg.k = "Sel"   -> tRet' = tRet /\ tX' = X(tArg) /\ tPc' = "loop"
         [] OTHER            -> tRet' = FALSE /\ tX' = tX /\ tPc' = "ret"
    /\ UNCHANGED <<notTerm, tIn, tCaller, tStack, tNode, tArg, tRelated>>

\* IsVar: `if sel, ok := x.(*ast.SelectorExpr); ok { x = sel }`  (lines 523-525)
IsVarLoopTurn ==
    /\ tPc = "loop" /\ tX.k = "Sel"
    /\ tX' = LoopNext(tX)
    /\ UNCHANGED <<notTerm, tIn, tCaller, tPc, tStack, tNode, tArg, tRet, tRelated>>

\* IsVar: `else { break }`, then `if _, ok := x.(*ast.Ident); ok { return true }`
\* (lines 526-536)
IsVarLoopBreak ==
    /\ tPc = "loop" /\ tX.k # "Sel"
    /\ tRet' = (tX.k = "Ident")
    /\ tPc' = "ret"
    /\ UNCHANGED <<notTerm, tIn, tCaller, tStack, tNode, tArg, tX, tRelated>>

\* back in Visit: related, `return nil`; or `ast.Walk(v, node.X)`  (lines 484-493)
VisitSelectorReturn ==
    /\ tPc = "ret" /\ tCaller = "Walk"
    /\ IF tRet
       THEN tRelated' = tRelated \cup {tNode} /\ tStack' = tStack
       ELSE tRelated' = tRelated /\ tStack' = <<X(tNode)>> \o tStack
    /\ tPc' = "walk"
    /\ UNCHANGED <<notTerm, tIn, tCaller, tNode, tArg, tX, tRet>>

\* back in A.Use or isRelated
CallerReturn ==
    /\ tPc = "ret" /\ tCaller # "Walk"
    /\ tPc' = "done"
    /\ UNCHANGED <<notTerm, tIn, tCaller, tStack, tNode, tArg, tX, tRet, tRelated>>

NextTerm ==
    \/ WalkStart
    \/ UseStart
    \/ IsRelatedStart
    \/ VisitSelector
    \/ VisitIdent
    \/ VisitOther
    \/ WalkDone
    \/ IsVarEnter
    \/ IsVarLoopTurn
    \/ IsVarLoopBreak
    \/ VisitSelectorReturn
    \/ CallerReturn

\* The goroutine running a resolution keeps running: it is never suspended
\* forever (spec section 5), hence weak fairness of its next step.
\* one run of the visitor or of IsVar on one expression, nothing else running
TermInit == InitCacheIdle /\ InitParseIdle /\ InitOthersIdle /\ InitTerm

SpecTerm == TermInit /\ [][NextTerm]_vars /\ WF_vars(NextTerm)

\* C5: every resolution runs to completion: IsVar, the relatedness visitor and
\* the backward scan's isRelated terminate for every expression, dotted chains
\* of three or more segments (a.b.c, a.b.c.d(), &a.b.c) included.
C5_EveryResolutionCompletes == <>(tPc = "done")


(***************************************************************************)
(* SpecParse: Assert's resolution of one call site: ParseArgs, ParseInfo   *)
(* and the read of the slots, over bounded source files.  A file is one    *)
(* function whose body holds up to MaxStmts statements, one per line from  *)
(* line 2 on, and the asserting call `Check(...)` at column 50 of one of   *)
(* the lines: behind the statement of that line, before the later ones.    *)
(***************************************************************************)
MaxStmts == 2

Templates == {"a := 1", "b := 2", "a = b", "f(&a)", "if x := 1; f(&a) {}", "a.b = 1"}

\* the statement of a template, written on line l
Tmpl(id, l) ==
    CASE id = "a := 1" -> AssignStmt(<<Ident("a", At(l, 1))>>, ":=", <<Lit("1", At(l, 6))>>)
      [] id = "b := 2" -> AssignStmt(<<Ident("b", At(l, 1))>>, ":=", <<Lit("2", At(l, 6))>>)
      [] id = "a = b"  -> AssignStmt(<<Ident("a", At(l, 1))>>, "=", <<Ident("b", At(l, 5))>>)
      [] id = "f(&a)"  ->
            ExprStmt(CallExpr(Ident("f", At(l, 1)),
                              <<Unary("&", Ident("a", At(l, 4)))>>, At(l, 5)))
      [] id = "if x := 1; f(&a) {}" ->
            IfStmt(At(l, 1),
                   <<AssignStmt(<<Ident("x", At(l, 4))>>, ":=", <<Lit("1", At(l, 9))>>)>>,
                   CallExpr(Ident("f", At(l, 12)),
                            <<Unary("&", Ident("a", At(l, 15)))>>, At(l, 16)),
                   BlockStmt(At(l, 18), <<>>, At(l, 19)))
      [] id = "a.b = 1" ->
            AssignStmt(<<Chain(<<"a", "b">>, At(l, 1))>>, "=", <<Lit("1", At(l, 7))>>)

CallShapes == {"a", "a > b", "t, a.b, b"}

\* the arguments of the asserting call, written on line l
ShapeArgs(shape, l) ==
    CASE shape = "a"     -> <<Ident("a", At(l, 56))>>
      [] shape = "a > b" -> <<Binary(Ident("a", At(l, 56)), ">", Ident("b", At(l, 60)))>>
      [] shape = "t, a.b, b" ->
            <<Ident("t", At(l, 56)), Chain(<<"a", "b">>, At(l, 59)), Ident("b", At(l, 64))>>

\* Check(args...) on line l
CheckCall(shape, l) ==
    CallExpr(Ident("Check", At(l, 50)), ShapeArgs(shape, l), At(l, 69))

\* func TestX() { the statements, the asserting call on line c }
SourceFile(tmpls, c, shape) ==
    LET n == Len(tmpls)
        before == [i \in 1..(IF c - 1 < n THEN c - 1 ELSE n) |-> Tmpl(tmpls[i], i + 1)]
        later == [i \in 1..(n - Len(before)) |->
                     Tmpl(tmpls[Len(before) + i], Len(before) + i + 1)]
        body == before \o <<ExprStmt(CheckCall(shape, c))>> \o later
    IN  File(<<FuncDecl("TestX", At(1, 1), BlockStmt(At(1, 20), body, At(n + 3, 1)))>>)

ArgIndexLists == {<<>>, <<0>>, <<1>>, <<-1>>, <<0, 1>>, <<-1, 0, 4>>, <<-4, 0>>}
Names == {<<"Check">>, <<"assert", "Check">>, <<"Other">>}

\* A failing assertion: the caller's file, its line from the stack frame (the
\* line of the asserting call, or one holding no such call), the Trigger's
\* FuncName and Args.
InitParse ==
    /\ \E n \in 0..MaxStmts : \E tmpls \in SeqsOfLen(Templates, n) :
       \E c \in 2..(n + 2) : \E shape \in CallShapes :
          /\ pFile = SourceFile(tmpls, c, shape)
          /\ pLine \in {c, c + 1}
    /\ pName \in Names
    /\ pArgIndex \in ArgIndexLists
    /\ pExcluded = {}
    /\ pPc = "start"
    /\ pF = NoFunc
    /\ pInfo = NoInfo
    /\ pOut = ""

\* f, err := trigger.P().ParseArgs(trigger.FuncName, trigger.Skip+1, trigger.Args)
DoParseArgs ==
    /\ pPc = "start"
    /\ pF' = ParseArgs(pFile, pName, pLine, pArgIndex)
    /\ pPc' = IF pF'.err # NoErr THEN "failed" ELSE "parsed"
    /\ UNCHANGED <<notParse, pFile, pName, pLine, pArgIndex, pExcluded, pInfo, pOut>>

\* if err != nil { t.Fatalf("Assertion failed with an internal error: %v", err) }
AssertInternalError ==
    /\ pPc = "failed"
    /\ pOut' = "internal error"
    /\ pPc' = "done"
    /\ UNCHANGED <<notParse, pFile, pName, pLine, pArgIndex, pExcluded, pF, pInfo>>

\* info := trigger.P().ParseInfo(f)
DoParseInfo ==
    /\ pPc = "parsed"
    /\ pInfo' = ParseInfo(pF, pExcluded)
    /\ pPc' = "info"
    /\ UNCHANGED <<notParse, pFile, pName, pLine, pArgIndex, pExcluded, pF, pOut>>

\* arg := info.Args[0]; ... indentAssignments(info.Assignments[0], 4); t.Fatalf:
\* an index past the end of a slice panics
AssertReport ==
    /\ pPc = "info"
    /\ pOut' = IF Len(pInfo.Args) = 0 \/ Len(pInfo.Assignments) = 0
               THEN "panic" ELSE "message"
    /\ pPc' = "done"
    /\ UNCHANGED <<notParse, pFile, pName, pLine, pArgIndex, pExcluded, pF, pInfo>>

NextParse ==
    \/ DoParseArgs
    \/ AssertInternalError
    \/ DoParseInfo
    \/ AssertReport

\* one failing assertion, nothing else running
ParseInit == InitCacheIdle /\ InitTermIdle /\ InitOthersIdle /\ InitParse

SpecParse == ParseInit /\ [][NextParse]_vars


(***************************************************************************)
(* Claims about ParseArgs, ParseInfo and Assert, checked under SpecParse.  *)
(***************************************************************************)
\* ParseArgs has returned a nil error
Parsed == pPc \in {"parsed", "info", "done"} /\ pF.err = NoErr
\* ParseInfo has returned
Informed == pPc \in {"info", "done"}
\* a call expression with the requested name spans the caller's line
Matched == pF.Caller # NilExpr

\* C3: for every ParseArgs call that returns a nil error, with any non-empty
\* list of requested indices and whether or not a matching call expression
\* was found, the number of returned argument slots (Func.Args, and Info.Args
\* after ParseInfo) equals the number of requested indices.
C3_SlotsMatchIndices ==
    /\ Parsed => Len(pF.Args) = Len(pArgIndex)
    /\ Informed => Len(pInfo.Args) = Len(pArgIndex)

\* C4: when no call expression with the requested name spans the caller's
\* line, ParseArgs returns a nil error, every dependent output is an empty
\* value, and Assert, reading Info.Args[0] and Info.Assignments[0], still
\* produces its failure message instead of aborting.
C4_NoMatchStillReports ==
    (pPc = "done" /\ pArgIndex # <<>> /\ ~Matched) =>
        /\ pF.err = NoErr
        /\ pInfo.Source = <<>>
        /\ \A i \in 1..Len(pInfo.Args) : pInfo.Args[i] = <<>>
        /\ \A i \in 1..Len(pInfo.Assignments) : pInfo.Assignments[i] = <<>>
        /\ pInfo.RelatedVars = {}
        /\ pOut = "message"

\* the related exprs of the requested argument in slot i
SlotExprs(i) == findRelatedExprs(pF.Args[i])
\* entry j of the traversal `nodes` lies in the subtree of entry k
Within(nodes, j, k) == k <= j /\ j < k + nodes[k].size
\* the innermost statement that holds entry j
Container(nodes, j) ==
    LET S == {k \in 1..j : IsStmt(nodes[k].node) /\ Within(nodes, j, k)}
    IN  nodes[CHOOSE k \in S : \A m \in S : m <= k].node
\* the nodes before the caller's line, outside every excluded call, that bind e
Occurrences(nodes, e) ==
    {j \in 1..Len(nodes) :
        /\ LineOf(nodes[j].node.pos) < pLine
        /\ Binds(nodes[j].node, e)
        /\ ~\E k \in 1..j : Prunes(nodes[k].node, pExcluded) /\ Within(nodes, j, k)}
\* the statements that hold the bindings of e before the caller's line
Binders(nodes, e) == {Container(nodes, j) : j \in Occurrences(nodes, e)}

\* C9: the backward scan only considers nodes whose source line is strictly
\* less than the call's line: a statement that binds a related variable on the
\* call's line or after it is never reported as an assignment.
C9_OnlyEarlierLines ==
    Informed =>
        \A i \in 1..Len(pInfo.Stmts) : \A k \in 1..Len(pInfo.Stmts[i]) :
            LineOf(pInfo.Stmts[i][k].pos) < pLine

\* a requested variable is bound on the caller's line or after it, and before it
C9_Witness ==
    /\ pPc = "info" /\ Matched
    /\ LET nodes == PreOrder(pF.Func)
       IN  \E i \in 1..Len(pF.Args) : \E e \in SlotExprs(i) :
             /\ pInfo.Stmts[i] # <<>>
             /\ \E j \in 1..Len(nodes) :
                   /\ LineOf(nodes[j].node.pos) >= pLine
                   /\ Binds(nodes[j].node, e)
             /\ Occurrences(nodes, e) # {}

\* st is what the claim lets the scan report for a variable whose binding
\* statements before the line are `binders`: the last of them (that statement
\* itself when it is an assignment, a range clause or an expression statement;
\* a statement inside it otherwise), and so none of the earlier ones.
ReportsLast(st, binders) ==
    LET c == CHOOSE x \in binders : \A y \in binders : y.pos <= x.pos
    IN  /\ c.k \in {"Assign", "Range", "ExprStmt"} => st = c
        /\ c.pos <= st.pos /\ st.pos < c.end
        /\ \A y \in binders : y.pos <= st.pos

MaxInfoStmts == 2

InfoTemplates ==
    {"a := 1", "a = b", "b := c", "a, b := 1, 2", "f(&a, &b)", "a.b = 1",
     "if x := 1; f(&a) {}"}

\* the statement of a template, written on line l
InfoTmpl(id, l) ==
    CASE id = "b := c" -> AssignStmt(<<Ident("b", At(l, 1))>>, ":=", <<Ident("c", At(l, 6))>>)
      [] id = "a, b := 1, 2" ->
            AssignStmt(<<Ident("a", At(l, 1)), Ident("b", At(l, 4))>>, ":=",
                       <<Lit("1", At(l, 9)), Lit("2", At(l, 12))>>)
      [] id = "f(&a, &b)" ->
            ExprStmt(CallExpr(Ident("f", At(l, 1)),
                              <<Unary("&", Ident("a", At(l, 4))),
                                Unary("&", Ident("b", At(l, 8)))>>, At(l, 9)))
      [] OTHER -> Tmpl(id, l)

InfoShapes == {"a", "a > b", "a.b", "c.Value", "a > c.Value", "a.b.c()", "f(b)", "a, b"}

\* the arguments of the asserting call, written on line l
InfoArgs(shape, l) ==
    CASE shape = "a.b"     -> <<Chain(<<"a", "b">>, At(l, 56))>>
      [] shape = "c.Value" -> <<Chain(<<"c", "Value">>, At(l, 56))>>
      [] shape = "a > c.Value" ->
            <<Binary(Ident("a", At(l, 56)), ">", Chain(<<"c", "Value">>, At(l, 60)))>>
      [] shape = "a.b.c()" ->
            <<CallExpr(Chain(<<"a", "b", "c">>, At(l, 56)), <<>>, At(l, 62))>>
      [] shape = "f(b)" ->
            <<CallExpr(Ident("f", At(l, 56)), <<Ident("b", At(l, 58))>>, At(l, 59))>>
      [] shape = "a, b" -> <<Ident("a", At(l, 56)), Ident("b", At(l, 59))>>
      [] OTHER -> ShapeArgs(shape, l)

\* the loop header as the source file spells it: gofmt's spacing, or none
\* after the comma
Loops == {"none", "for i, c := range items", "for i,c := range items"}

\* the range statement around `body`, its header on line 2
LoopStmt(loop, body, rbrace) ==
    IF loop = "for i,c := range items"
    THEN RangeStmt(At(2, 1), <<Ident("i", At(2, 5)), Ident("c", At(2, 7))>>,
                   Ident("items", At(2, 18)), BlockStmt(At(2, 24), body, rbrace))
    ELSE RangeStmt(At(2, 1), <<Ident("i", At(2, 5)), Ident("c", At(2, 8))>>,
                   Ident("items", At(2, 19)), BlockStmt(At(2, 25), body, rbrace))

\* func TestX() { [for ... {] the statements; Check(args) [}] }
InfoFile(loop, tmpls, shape) ==
    LET n == Len(tmpls)
        call == CallExpr(Ident("Check", At(n + 3, 50)), InfoArgs(shape, n + 3),
                         At(n + 3, 69))
        body == [i \in 1..n |-> InfoTmpl(tmpls[i], i + 2)] \o <<ExprStmt(call)>>
        top == IF loop = "none" THEN body ELSE <<LoopStmt(loop, body, At(n + 4, 1))>>
    IN  File(<<FuncDecl("TestX", At(1, 1), BlockStmt(At(1, 20), top, At(n + 5, 1)))>>)

\* the calls a tracking helper may have registered with AddExcluded: the calls
\* of f in the file
Excludable(file) ==
    LET nodes == PreOrder(file)
    IN  {nodes[j].node : j \in {k \in 1..Len(nodes) :
            nodes[k].node.k = "Call" /\ CalleeName(nodes[k].node) = "f"}}

InfoArgIndexLists == {<<>>, <<0>>, <<0, 1>>}

\* A failing assertion in such a file; the frame's line is the call's line
InitInfo ==
    /\ \E n \in 0..MaxInfoStmts : \E tmpls \in SeqsOfLen(InfoTemplates, n) :
       \E loop \in Loops : \E shape \in InfoShapes :
          /\ pFile = InfoFile(loop, tmpls, shape)
          /\ pLine = n + 3
    /\ pName = <<"Check">>
    /\ pArgIndex \in InfoArgIndexLists
    /\ pExcluded \in SUBSET Excludable(pFile)
    /\ pPc = "start"
    /\ pF = NoFunc
    /\ pInfo = NoInfo
    /\ pOut = ""

InfoInit == InitCacheIdle /\ InitTermIdle /\ InitOthersIdle /\ InitInfo

SpecInfo == InfoInit /\ [][NextParse]_vars


(***************************************************************************)
(* Claims about the relatedness visitor, checked under SpecTerm.           *)
(***************************************************************************)
\* findRelatedExprs has returned for the expression tIn
Walked == tPc = "done" /\ tCaller = "Walk"
\* the source text of the exprs the visitor has reported
RelatedTexts == {formatNode(e) : e \in tRelated}

\* C16: for a method call on a dotted chain, the relatedness visitor reports
\* the chain without the method name and without any shorter prefix:
\* `obj.field.Method()` yields exactly `obj.field` (and `a.b.c()` yields
\* `a.b`), not `obj` and not `obj.field.Method`.
C16_MethodCallYieldsReceiverChain ==
    (Walked /\ tIn.k = "Call" /\ Fun(tIn).k = "Sel" /\ X(Fun(tIn)).k = "Sel") =>
        RelatedTexts = {formatNode(X(Fun(tIn)))}

\* C17 as stated: for a call expression `f(x)` inside an argument, the
\* relatedness visitor never reports the callee name `f` as related, and it
\* reports the variables in the call's arguments exactly as for any other
\* sub-expression.
C17_CalleeNeverRelated ==
    (Walked /\ tIn.k = "Call" /\ Fun(tIn).k = "Ident") =>
        /\ Fun(tIn) \notin tRelated
        /\ Range(Args(tIn)) \subseteq tRelated

\* C17 as amended: for a call expression `f(x)` inside an argument, the
\* relatedness visitor reports the callee identifier `f` as related, like any
\* other identifier, and it reports the variables in the call's arguments
\* exactly as for any other sub-expression.
C17_CalleeAndArgumentsRelated ==
    (Walked /\ tIn.k = "Call" /\ Fun(tIn).k = "Ident") =>
        tRelated = {Fun(tIn)} \cup Range(Args(tIn))

\* the visitor has returned for f(a.b)
C17_Witness ==
    /\ Walked /\ tIn.k = "Call" /\ Fun(tIn).k = "Ident"
    /\ Len(Args(tIn)) = 1 /\ Args(tIn)[1].k = "Sel"
    /\ Cardinality(tRelated) = 2


(***************************************************************************)
(* Claims about the scan and the related variables, checked under SpecInfo. *)
(***************************************************************************)
\* the nodes before the caller's line that bind e and are neither a registered
\* call nor inside one
FreeOccurrences(nodes, e) ==
    {j \in 1..Len(nodes) :
        /\ LineOf(nodes[j].node.pos) < pLine
        /\ Binds(nodes[j].node, e)
        /\ ~\E k \in 1..j : nodes[k].node \in pExcluded /\ Within(nodes, j, k)}
\* the statements that hold them
FreeBinders(nodes, e) == {Container(nodes, j) : j \in FreeOccurrences(nodes, e)}

\* C11: a call expression registered in the exclusion set is never reported as
\* the binding of a related variable; the scan reports the last binding outside
\* the registered calls instead (for `v1 := 123; Track(&v1, &v2); Check(v1)`
\* with the Track call registered: `v1 := 123`).
C11_ExcludedNeverBinding ==
    (Informed /\ Matched) =>
        LET nodes == PreOrder(pF.Func)
        IN  \A i \in 1..Len(pF.Args) :
              LET bound == {FreeBinders(nodes, e) : e \in SlotExprs(i)} \ {{}}
                  stmts == Range(pInfo.Stmts[i])
              IN  /\ \A st \in stmts : st.k = "ExprStmt" => st.sub[1] \notin pExcluded
                  /\ \A st \in stmts : \E bs \in bound : ReportsLast(st, bs)
                  /\ \A bs \in bound : \E st \in stmts : ReportsLast(st, bs)

\* a registered call passes the address of a requested variable after an
\* assignment to it, and the assignment is what is reported
C11_Witness ==
    /\ pPc = "info" /\ Matched
    /\ \E i \in 1..Len(pF.Args) : \E e \in SlotExprs(i) : \E call \in pExcluded :
         /\ CallBinds(call, e)
         /\ pInfo.Stmts[i] # <<>>
         /\ \A st \in Range(pInfo.Stmts[i]) : st.k = "Assign" /\ st.pos < call.pos

\* the variable or dotted chain `target` is e or a parent of e
Denotes(target, e) == IsVar(target) /\ IsIncluded(formatNode(target), formatNode(e))

\* the bindings the specification counts: a direct assignment with the
\* variable's name or dotted chain among its left-hand targets, a range clause
\* with it as key or value, a call that passes its address
StatedBinds(node, e) ==
    CASE node.k = "Assign" -> \E t \in Range(Lhs(node)) : Denotes(t, e)
      [] node.k = "Range"  -> \E t \in {RangeKey(node), RangeValue(node)} \ {NilExpr} :
                                  Denotes(t, e)
      [] node.k = "Call"   -> \E t \in Range(Args(node)) :
                                  t.k = "Unary" /\ t.name = "&" /\ Denotes(X(t), e)
      [] OTHER             -> FALSE

\* the statement holding the last such binding of e before the caller's line,
\* registered calls left out; NilExpr when there is none
StatedLastBinding(nodes, e) ==
    LET S == {j \in 1..Len(nodes) :
                /\ LineOf(nodes[j].node.pos) < pLine
                /\ StatedBinds(nodes[j].node, e)
                /\ ~\E k \in 1..j : nodes[k].node \in pExcluded /\ Within(nodes, j, k)}
    IN  IF S = {} THEN NilExpr
        ELSE Container(nodes, CHOOSE j \in S : \A m \in S : m <= j)

\* C12: for each requested argument, the assignments list holds exactly the
\* last binding statement of every variable the argument references that has
\* one before the call's line; a statement that binds several of those
\* variables appears once; the list is in source order.
C12_AssignmentsAreLastBindings ==
    (Informed /\ Matched) =>
        LET nodes == PreOrder(pF.Func)
        IN  \A i \in 1..Len(pF.Args) :
              LET last == {StatedLastBinding(nodes, e) : e \in SlotExprs(i)} \ {NilExpr}
                  got == pInfo.Stmts[i]
              IN  /\ Range(got) = last
                  /\ Len(got) = Cardinality(last)
                  /\ Len(pInfo.Assignments[i]) = Len(got)
                  /\ \A k, m \in 1..Len(got) : k < m => got[k].pos < got[m].pos

\* C13: a direct assignment before the call's line binds a related variable
\* when the variable's name or its dotted chain appears as a left-hand target
\* (`a.b = 1` binds the related chain `a.b`): the assignment is reported, unless
\* a binding after it is.
C13_DirectAssignmentBinds ==
    (Informed /\ Matched) =>
        LET nodes == PreOrder(pF.Func)
        IN  \A i \in 1..Len(pF.Args) : \A e \in SlotExprs(i) : \A j \in 1..Len(nodes) :
              LET node == nodes[j].node
              IN  (/\ node.k = "Assign"
                   /\ LineOf(node.pos) < pLine
                   /\ \E t \in Range(Lhs(node)) : Denotes(t, e))
                  => \E st \in Range(pInfo.Stmts[i]) : st.pos >= node.pos

\* the binding clause of a range statement: Key, Value := range X
Clause(rng) ==
    Render(FormatList(SubSeq(rng.sub, 1, rng.n)) \o <<rng.name, "range">>
           \o formatNode(RangeX(rng)))

\* C14: when the binding of a related variable is a range loop's key or value,
\* the reported assignment text is exactly the binding clause
\* (`i, c := range items`), without the `for` keyword and without any statement
\* of the loop body.
C14_RangeClauseOnly ==
    (Informed /\ Matched) =>
        \A i \in 1..Len(pInfo.Stmts) : \A k \in 1..Len(pInfo.Stmts[i]) :
            pInfo.Stmts[i][k].k = "Range" =>
                pInfo.Assignments[i][k] = Clause(pInfo.Stmts[i][k])

\* the matched call is in the body of a range loop `for i, c := range items`
\* opened on an earlier line
InLoop ==
    LET nodes == PreOrder(pF.Func)
    IN  \E j \in 1..Len(nodes) :
          /\ nodes[j].node.k = "Range"
          /\ LineOf(nodes[j].node.pos) < pLine
          /\ nodes[j].node.pos < pF.Caller.pos /\ pF.Caller.end <= nodes[j].node.end
\* the requested slots whose argument references c.Value
ValueSlots ==
    {i \in 1..Len(pF.Args) : \E e \in SlotExprs(i) : formatNode(e) = <<"c", ".", "Value">>}

C18_NoRequestedArgumentListed ==
    Informed => \A i \in 1..Len(pInfo.Args) : pInfo.Args[i] \notin pInfo.RelatedVars

\* the exprs the visitor reports in a set of expressions
VarsOf(exprs) == UNION {findRelatedExprs(x) : x \in exprs}
\* both sides of an assignment, key and value of a range clause
Sides(st) ==
    CASE st.k = "Assign" -> Range(st.sub)
      [] st.k = "Range"  -> {RangeKey(st), RangeValue(st)} \ {NilExpr}
      [] OTHER           -> {}

RECURSIVE Closure(_, _)
\* the variables reached from the set S through the last binding statements
\* of its members, through theirs, and so on for n levels
Closure(S, n) ==
    IF n = 0 THEN S
    ELSE LET stmts == {LastStmt(pF.Func, pLine, e, pExcluded) : e \in S} \ {NilExpr}
         IN  Closure(S \cup VarsOf(UNION {Sides(st) : st \in stmts}), n - 1)

C20_NegativeIndexFromEnd ==
    (Parsed /\ Matched) =>
        LET n == Len(Args(pF.Caller))
        IN  /\ Len(pF.Args) = Len(pArgIndex)
            /\ \A k \in 1..Len(pArgIndex) :
                 /\ (pArgIndex[k] < 0 /\ pArgIndex[k] + n >= 0)
                      => pF.Args[k] = Args(pF.Caller)[pArgIndex[k] + n + 1]
                 /\ (pArgIndex[k] >= 0 /\ pArgIndex[k] < n)
                      => pF.Args[k] = Args(pF.Caller)[pArgIndex[k] + 1]

\* index -1 on a three-argument call, followed by index 0
C20_Witness ==
    /\ pPc = "parsed" /\ Matched
    /\ Len(Args(pF.Caller)) = 3
    /\ Len(pArgIndex) >= 2 /\ pArgIndex[1] = -1 /\ pArgIndex[2] = 0
    /\ pF.Args[1] = Args(pF.Caller)[3] /\ pF.Args[2] = Args(pF.Caller)[1]

\* the index a requested index stands for on a call with n arguments
Normalized(idx, n) == IF idx < 0 THEN idx + n ELSE idx

\* C21: on a matched call with n arguments, a requested index that after
\* normalization lies outside [0, n) yields an absent slot: its argument text
\* is "" and its assignments are empty, no error is returned, and every other
\* requested index is still resolved to its argument.
C21_InvalidIndexAbsentSlot ==
    (Informed /\ Matched) =>
        LET n == Len(Args(pF.Caller))
        IN  /\ pF.err = NoErr
            /\ Len(pInfo.Args) = Len(pArgIndex)
            /\ Len(pInfo.Assignments) = Len(pArgIndex)
            /\ \A k \in 1..Len(pArgIndex) :
                 LET idx == Normalized(pArgIndex[k], n)
                 IN  IF idx < 0 \/ idx >= n
                     THEN /\ pF.Args[k] = NilExpr
                          /\ pInfo.Args[k] = <<>>
                          /\ pInfo.Assignments[k] = <<>>
                     ELSE /\ pF.Args[k] = Args(pF.Caller)[idx + 1]
                          /\ pInfo.Args[k] = formatNode(Args(pF.Caller)[idx + 1])
                          /\ pInfo.Args[k] # <<>>

\* a list with an index past the end, or before the start, next to a valid one
C21_Witness ==
    /\ pPc = "info" /\ Matched
    /\ LET n == Len(Args(pF.Caller))
       IN  /\ \E k \in 1..Len(pArgIndex) :
                 (Normalized(pArgIndex[k], n) < 0 \/ Normalized(pArgIndex[k], n) >= n)
                 /\ pInfo.Args[k] = <<>>
           /\ \E k \in 1..Len(pArgIndex) :
                 Normalized(pArgIndex[k], n) \in 0..(n - 1) /\ pInfo.Assignments[k] # <<>>

\* ---------------------------------------------------------------------------
\* Claims about calls that pass an address, checked under SpecInfo
\* ---------------------------------------------------------------------------

\* the last node before the caller's line, outside the registered calls, that
\* binds e (0 when there is none)
LastFree(nodes, e) ==
    LET S == FreeOccurrences(nodes, e)
    IN  IF S = {} THEN 0 ELSE CHOOSE j \in S : \A m \in S : m <= j

\* the value of `stmt` when the scan visits entry j: the most recently visited
\* node that is an ast.Stmt (`if node, ok := n.(ast.Stmt); ok { stmt = node }`)
VisitedStmt(nodes, j, excluded) ==
    LET S == {k \in 1..j :
                /\ IsStmt(nodes[k].node)
                /\ ~\E m \in 1..k : Prunes(nodes[m].node, excluded) /\ m # k /\ Within(nodes, k, m)}
    IN  IF S = {} THEN NilExpr ELSE nodes[CHOOSE k \in S : \A m \in S : m <= k].node

\* C22: a call before the caller's line that is not registered as excluded and
\* passes `&v`, v a related variable or a parent of a related dotted chain, is
\* a binding of that variable: when it is the last binding, the statement that
\* holds the call is among the reported assignments of the slot.
C22_AddressOfCallReported ==
    (Informed /\ Matched) =>
        LET nodes == PreOrder(pF.Func)
        IN  \A i \in 1..Len(pF.Args) : \A e \in SlotExprs(i) :
              LET j == LastFree(nodes, e)
              IN  (j # 0 /\ nodes[j].node.k = "Call") =>
                      Container(nodes, j) \in Range(pInfo.Stmts[i])

\* C29: whenever the scan records a binding at a call that passes `&v`, the
\* statement it records is the statement that syntactically contains the call,
\* also when the call follows another statement inside the same construct.
C29_RecordedStatementContainsCall ==
    (Informed /\ Matched) =>
        LET nodes == PreOrder(pF.Func)
        IN  \A i \in 1..Len(pF.Args) : \A e \in SlotExprs(i) :
              \A j \in FreeOccurrences(nodes, e) :
                  nodes[j].node.k = "Call" =>
                      Record(NilExpr, VisitedStmt(nodes, j, pExcluded)) = Container(nodes, j)


(***************************************************************************)
(* SpecDecl: ParseArgs, ParseInfo and Assert over files of several         *)
(* declarations.  Declaration i starts on line 2 * i and takes at most two *)
(* lines; the caller's line is any line of the file.                       *)
(***************************************************************************)
MaxDecls == 2

DeclTemplates == {"func F() {}", "func T() { a := 1; Check(a, b) }",
                  "var v = Check(a, b)", "var w = Check(Check(a), b)",
                  "var x = Check(a, Check(b, c))", "var y = Check(a) > Check(b)"}

\* the declaration of a template, written from line l on
DeclTmpl(id, l) ==
    CASE id = "func F() {}" ->
            FuncDecl("F", At(l, 1), BlockStmt(At(l, 10), <<>>, At(l, 11)))
      [] id = "func T() { a := 1; Check(a, b) }" ->
            \* a := 1 on line l, the call on line l + 1
            FuncDecl("T", At(l, 1),
                BlockStmt(At(l, 10),
                    <<AssignStmt(<<Ident("a", At(l, 12))>>, ":=", <<Lit("1", At(l, 17))>>),
                      ExprStmt(CallExpr(Ident("Check", At(l + 1, 5)),
                                        <<Ident("a", At(l + 1, 11)), Ident("b", At(l + 1, 14))>>,
                                        At(l + 1, 15)))>>,
                    At(l + 1, 17)))
      [] id = "var v = Check(a, b)" ->
            GenDecl(At(l, 1), "v",
                CallExpr(Ident("Check", At(l, 9)),
                         <<Ident("a", At(l, 15)), Ident("b", At(l, 18))>>, At(l, 19)))
      [] id = "var w = Check(Check(a), b)" ->
            GenDecl(At(l, 1), "w",
                CallExpr(Ident("Check", At(l, 9)),
                         <<CallExpr(Ident("Check", At(l, 15)), <<Ident("a", At(l, 21))>>,
                                    At(l, 22)),
                           Ident("b", At(l, 25))>>, At(l, 26)))
      [] id = "var x = Check(a, Check(b, c))" ->
            \* the inner call on line l + 1
            GenDecl(At(l, 1), "x",
                CallExpr(Ident("Check", At(l, 9)),
                         <<Ident("a", At(l, 15)),
                           CallExpr(Ident("Check", At(l + 1, 5)),
                                    <<Ident("b", At(l + 1, 11)), Ident("c", At(l + 1, 14))>>,
                                    At(l + 1, 15))>>, At(l + 1, 16)))
      [] id = "var y = Check(a) > Check(b)" ->
            GenDecl(At(l, 1), "y",
                Binary(CallExpr(Ident("Check", At(l, 9)), <<Ident("a", At(l, 15))>>, At(l, 16)),
                       ">",
                       CallExpr(Ident("Check", At(l, 20)), <<Ident("b", At(l, 26))>>,
                                At(l, 27))))

\* the file holding the declarations of tmpls in order
DeclFile(tmpls) == File([i \in 1..Len(tmpls) |-> DeclTmpl(tmpls[i], 2 * i)])

DeclArgIndexLists == {<<>>, <<0>>, <<-1>>, <<0, 1>>}
DeclNames == {<<"Check">>, <<"Other">>}

\* A failing assertion whose stack frame names any line of the file.
InitDecl ==
    /\ \E n \in 1..MaxDecls : \E tmpls \in SeqsOfLen(DeclTemplates, n) :
          /\ pFile = DeclFile(tmpls)
          /\ pLine \in 2..(2 * n + 1)
    /\ pName \in DeclNames
    /\ pArgIndex \in DeclArgIndexLists
    /\ pExcluded = {}
    /\ pPc = "start"
    /\ pF = NoFunc
    /\ pInfo = NoInfo
    /\ pOut = ""

DeclInit == InitCacheIdle /\ InitTermIdle /\ InitOthersIdle /\ InitDecl

SpecDecl == DeclInit /\ [][NextParse]_vars

(***************************************************************************)
(* Claims about the matched call and its function, checked under SpecDecl. *)
(***************************************************************************)
\* the span of d contains the span of c
Contains(d, c) == d.pos <= c.pos /\ c.end <= d.end

\* C24: the enclosing function reported by ParseArgs is a function declaration
\* whose span contains the matched call; when the matched call is file-level
\* code inside no function declaration, Func is nil.
C24_FuncEnclosesCaller ==
    (Parsed /\ Matched) =>
        LET enclosing == {d \in Range(pFile.sub) :
                             d.k = "FuncDecl" /\ Contains(d, pF.Caller)}
        IN  IF enclosing = {} THEN pF.Func = NilExpr ELSE pF.Func \in enclosing

\* the calls of the file whose callee's simple name is the requested name and
\* whose span holds the caller's line, as entries of the file's pre-order
Candidates(list) ==
    {i \in 1..Len(list) :
        /\ list[i].node.k = "Call"
        /\ CalleeName(list[i].node) = SimpleName(pName)
        /\ LineOf(list[i].node.pos) <= pLine /\ pLine <= LineOf(list[i].node.end)}

\* C26: when more than one call whose callee's simple name is the requested
\* name spans the caller's line, ParseArgs uses the first of them in pre-order
\* and takes the argument slots from that call only.
C26_FirstMatchInPreOrder ==
    Parsed =>
        LET list == PreOrder(pFile)
            cands == Candidates(list)
        IN  Cardinality(cands) > 1 =>
              \E i \in cands :
                  /\ \A j \in cands : i <= j
                  /\ pF.Caller = list[i].node
                  /\ Len(pF.Args) = Len(pArgIndex)
                  /\ \A k \in 1..Len(pArgIndex) :
                        LET n == Len(Args(list[i].node))
                            idx == Normalized(pArgIndex[k], n)
                        IN  pF.Args[k] = IF idx \in 0..(n - 1)
                                         THEN Args(list[i].node)[idx + 1] ELSE NilExpr

\* two calls of the requested name span the caller's line, and the slots are
\* not those the later call would give
C26_Witness ==
    /\ pPc = "parsed"
    /\ LET list == PreOrder(pFile)
           cands == Candidates(list)
       IN  /\ Cardinality(cands) > 1
           /\ \E j \in cands : /\ list[j].node # pF.Caller
                               /\ ExtractArgs(list[j].node, pArgIndex) # pF.Args


(***************************************************************************)
(* SpecForeign: one Parser resolving a call site in a_test.go after calls  *)
(* of b_test.go were registered with AddExcluded.  parseFile gives every   *)
(* file a token.NewFileSet() of its own, so positions of different files   *)
(* are drawn from the same numbers.                                        *)
(***************************************************************************)
MaxForeignStmts == 2

ForeignTemplates == {"a := 1", "a = b", "f(&a)", "f(&a, &b)"}
ForeignShapes == {"a", "a > b", "a, b"}

\* the call `g(&z)` written at the start of line l of b_test.go
ForeignCall(l) ==
    CallExpr(Ident("g", At(l, 1)), <<Unary("&", Ident("z", At(l, 4)))>>, At(l, 5))

\* the calls of b_test.go a tracking helper may have registered
ForeignCalls == {ForeignCall(l) : l \in 3..(MaxForeignStmts + 2)}

\* the call expressions of a file
OwnCalls(file) ==
    LET nodes == PreOrder(file)
    IN  {nodes[j].node : j \in {k \in 1..Len(nodes) : nodes[k].node.k = "Call"}}

InitForeign ==
    /\ \E n \in 0..MaxForeignStmts : \E tmpls \in SeqsOfLen(ForeignTemplates, n) :
       \E shape \in ForeignShapes :
          /\ pFile = InfoFile("none", tmpls, shape)
          /\ pLine = n + 3
    /\ pName = <<"Check">>
    /\ pArgIndex \in InfoArgIndexLists
    /\ pExcluded \in SUBSET (Excludable(pFile) \cup ForeignCalls)
    /\ pPc = "start"
    /\ pF = NoFunc
    /\ pInfo = NoInfo
    /\ pOut = ""

ForeignInit == InitCacheIdle /\ InitTermIdle /\ InitOthersIdle /\ InitForeign

SpecForeign == ForeignInit /\ [][NextParse]_vars

\* C28: the backward scan skips a call only when that very call, of the same
\* file at the same position, was registered through AddExcluded: the calls
\* registered for another file change nothing in what ParseInfo reports.
C28_ForeignExclusionsIgnored ==
    Informed => pInfo = ParseInfo(pF, pExcluded \cap OwnCalls(pFile))


(***************************************************************************)
(* SpecKind: Assert classifying its operand with ParseFalseKind.  A value  *)
(* is its reflect.Kind, whether its type is a defined (named) type or the  *)
(* predeclared or literal one, whether it is the zero value of its type    *)
(* (false, 0, "", nil), and the number of interface-typed variables it was *)
(* stored in before it was passed.                                         *)
(***************************************************************************)
MaxWrap == 1

SignedKinds == {"Int", "Int8", "Int16", "Int32", "Int64"}
UnsignedKinds == {"Uint", "Uint8", "Uint16", "Uint32", "Uint64"}
FloatKinds == {"Float32", "Float64"}
ComplexKinds == {"Complex64", "Complex128"}
NilCheckedKinds == {"Ptr", "Chan", "Func", "Slice"}
\* the kinds a dynamic value can have (reflect.Kind without Invalid, Interface)
Kinds == SignedKinds \cup UnsignedKinds \cup FloatKinds \cup ComplexKinds
             \cup NilCheckedKinds
             \cup {"Bool", "String", "Uintptr", "Map", "Array", "Struct", "UnsafePointer"}

\* the operands of Assert: typed values, the untyped nil, nil interfaces
Values ==
    [kind : Kinds, named : BOOLEAN, zero : BOOLEAN, wraps : 0..MaxWrap]
        \cup {[NilValue EXCEPT !.wraps = w] : w \in 0..MaxWrap}

\* passing x as `expr interface{}`: an interface holds the dynamic value, never
\* another interface, and a nil interface becomes the nil interface{}
ToInterface(x) == [x EXCEPT !.wraps = 0]

\* reflect.Value.Kind()
KindOf(v) == IF v.wraps > 0 THEN "Interface" ELSE v.kind
\* reflect.Value.Elem() of an interface
Elem(v) == [v EXCEPT !.wraps = @ - 1]

RECURSIVE KindLoop(_)
\* the `for { switch v.Kind() ... }` of ParseFalseKind
KindLoop(v) ==
    CASE KindOf(v) = "Invalid" -> "Nil"
      [] KindOf(v) \in SignedKinds -> IF v.zero THEN "Zero" ELSE "Positive"
      [] KindOf(v) \in UnsignedKinds -> IF v.zero THEN "Zero" ELSE "Positive"
      [] KindOf(v) \in FloatKinds -> IF v.zero THEN "Zero" ELSE "Positive"
      [] KindOf(v) \in ComplexKinds -> IF v.zero THEN "Zero" ELSE "Positive"
      [] KindOf(v) = "String" -> IF v.zero THEN "EmptyString" ELSE "Positive"
      [] KindOf(v) = "Interface" ->
            IF v.kind = "Invalid" THEN "Nil" ELSE KindLoop(Elem(v))
      [] KindOf(v) \in NilCheckedKinds -> IF v.zero THEN "Nil" ELSE "Positive"
      [] OTHER -> "Positive"

\* `v, ok := expr.(bool)`: ok when the dynamic type is bool itself
AssertsBool(expr) == expr.kind = "Bool" /\ ~expr.named

\* ParseFalseKind(expr)
ParseFalseKind(expr) ==
    IF expr = NilValue THEN "Nil"
    ELSE IF AssertsBool(expr) /\ expr.zero THEN "False"
    ELSE KindLoop(expr)

InitKind ==
    /\ kExpr \in Values
    /\ kPc = "start"
    /\ kRet = "Positive"

\* k := ParseFalseKind(expr)
DoParseFalseKind ==
    /\ kPc = "start"
    /\ kRet' = ParseFalseKind(ToInterface(kExpr))
    /\ kPc' = "classified"
    /\ UNCHANGED <<notKind, kExpr>>

\* if k == Positive { return }
AssertPasses ==
    /\ kPc = "classified"
    /\ kRet = "Positive"
    /\ kPc' = "passed"
    /\ UNCHANGED <<notKind, kExpr, kRet>>

\* otherwise Assert goes on to ParseArgs and reports the failure
AssertFails ==
    /\ kPc = "classified"
    /\ kRet # "Positive"
    /\ kPc' = "failing"
    /\ UNCHANGED <<notKind, kExpr, kRet>>

NextKind ==
    \/ DoParseFalseKind
    \/ AssertPasses
    \/ AssertFails

KindInit == InitCacheIdle /\ InitTermIdle /\ InitParseIdle /\ InitExclIdle /\ InitKind

SpecKind == KindInit /\ [][NextKind]_vars

\* C25: ParseFalseKind returns Nil for an untyped nil and for a nil pointer,
\* channel, function, slice or interface; False for boolean false; Zero for a
\* zero of any signed, unsigned, float or complex kind; EmptyString for the
\* empty string; Positive for every other value, a non-nil empty slice
\* included; a value wrapped in an interface is classified as the value it
\* wraps.
C25_FalseKindTable ==
    kPc # "start" =>
        kRet = CASE kExpr.kind = "Invalid" -> "Nil"
                 [] kExpr.kind \in {"Ptr", "Chan", "Func", "Slice"} /\ kExpr.zero -> "Nil"
                 [] kExpr.kind = "Bool" /\ kExpr.zero -> "False"
                 [] kExpr.kind \in SignedKinds \cup UnsignedKinds \cup {"Uintptr"}
                                   \cup FloatKinds \cup ComplexKinds
                    /\ kExpr.zero -> "Zero"
                 [] kExpr.kind = "String" /\ kExpr.zero -> "EmptyString"
                 [] OTHER -> "Positive"


(***************************************************************************)
(* SpecExcl: goroutines sharing one Parser, some registering calls with    *)
(* AddExcluded, some running ParseInfo.  A call expression is a number, 0  *)
(* the nil pointer.                                                        *)
(***************************************************************************)
MaxOps == 3
MaxSlots == 2

ExclCalls == {1, 2}

\* what a read of the slice header gets while another goroutine stores a new
\* one with no synchronization between the two (a data race): the new length
\* may be seen before the new element or the new array
Torn(old, new) == old \o <<0>>

\* the values `p.excluded` can yield to goroutine g
ReadOutcomes(g) ==
    {xExcluded} \cup
    UNION {{xNew[w], Torn(xExcluded, xNew[w])} :
              w \in {h \in Goroutines : h # g /\ xPc[h] = "store"}}

InitExcl ==
    /\ xLock = 0
    /\ xExcluded = <<>>
    /\ xPc = [g \in Goroutines |-> "idle"]
    /\ xCall = [g \in Goroutines |-> 0]
    /\ xNew = [g \in Goroutines |-> <<>>]
    /\ xSeen = [g \in Goroutines |-> <<>>]
    /\ xArgs = [g \in Goroutines |-> 0]
    /\ xOps = 0
    /\ xUnsync = FALSE

\* a goroutine enters p.AddExcluded(expr)
AddExcludedCall(g, c) ==
    /\ xPc[g] = "idle"
    /\ xOps < MaxOps
    /\ xOps' = xOps + 1
    /\ xCall' = [xCall EXCEPT ![g] = c]
    /\ xPc' = [xPc EXCEPT ![g] = "mlock"]
    /\ UNCHANGED <<notExcl, xLock, xExcluded, xNew, xSeen, xArgs, xUnsync>>

\* p.m.Lock()  (line 585)
AddLock(g) ==
    /\ xPc[g] = "mlock"
    /\ LockFree(xLock)
    /\ xLock' = g
    /\ xPc' = [xPc EXCEPT ![g] = "append"]
    /\ UNCHANGED <<notExcl, xExcluded, xCall, xNew, xSeen, xArgs, xOps, xUnsync>>

\* append(p.excluded, expr)  (line 587, right-hand side)
AddAppend(g) ==
    /\ xPc[g] = "append"
    /\ xNew' = [xNew EXCEPT ![g] = Append(xExcluded, xCall[g])]
    /\ xUnsync' = (xUnsync \/ xLock # g)
    /\ xPc' = [xPc EXCEPT ![g] = "store"]
    /\ UNCHANGED <<notExcl, xLock, xExcluded, xCall, xSeen, xArgs, xOps>>

\* p.excluded = ...  (line 587, the store of the slice header)
AddStore(g) ==
    /\ xPc[g] = "store"
    /\ xExcluded' = xNew[g]
    /\ xUnsync' = (xUnsync \/ xLock # g)
    /\ xPc' = [xPc EXCEPT ![g] = "munlock"]
    /\ UNCHANGED <<notExcl, xLock, xCall, xNew, xSeen, xArgs, xOps>>

\* the deferred p.m.Unlock()  (line 586)
AddUnlock(g) ==
    /\ xPc[g] = "munlock"
    /\ xLock' = IF xLock = g THEN 0 ELSE xLock
    /\ xPc' = [xPc EXCEPT ![g] = "done"]
    /\ UNCHANGED <<notExcl, xExcluded, xCall, xNew, xSeen, xArgs, xOps, xUnsync>>

\* a goroutine enters p.ParseInfo(f) with n argument slots in f.Args
ParseInfoCall(g, n) ==
    /\ xPc[g] = "idle"
    /\ xOps < MaxOps
    /\ xOps' = xOps + 1
    /\ xArgs' = [xArgs EXCEPT ![g] = n]
    /\ xPc' = [xPc EXCEPT ![g] = IF n = 0 THEN "done" ELSE "read"]
    /\ UNCHANGED <<notExcl, xLock, xExcluded, xCall, xNew, xSeen, xUnsync>>

\* findAssignments(fset, f.Func, f.Line, arg, p.excluded): the read of
\* p.excluded  (line 183)
InfoRead(g) ==
    /\ xPc[g] = "read"
    /\ \E seen \in ReadOutcomes(g) : xSeen' = [xSeen EXCEPT ![g] = seen]
    /\ xUnsync' = (xUnsync \/ xLock # g)
    /\ xPc' = [xPc EXCEPT ![g] = "scan"]
    /\ UNCHANGED <<notExcl, xLock, xExcluded, xCall, xNew, xArgs, xOps>>

\* `for _, call := range excluded` inside the scan (lines 355-359), then the
\* next argument of f.Args
InfoScan(g) ==
    /\ xPc[g] = "scan"
    /\ xArgs' = [xArgs EXCEPT ![g] = @ - 1]
    /\ xPc' = [xPc EXCEPT ![g] = IF xArgs[g] = 1 \/ 0 \in Range(xSeen[g])
                                 THEN "done" ELSE "read"]
    /\ UNCHANGED <<notExcl, xLock, xExcluded, xCall, xNew, xSeen, xOps, xUnsync>>

\* AddExcluded or ParseInfo has returned
ExclReturn(g) ==
    /\ xPc[g] = "done"
    /\ xPc' = [xPc EXCEPT ![g] = "idle"]
    /\ UNCHANGED <<notExcl, xLock, xExcluded, xCall, xNew, xSeen, xArgs, xOps, xUnsync>>

NextExcl ==
    \E g \in Goroutines :
        \/ \E c \in ExclCalls : AddExcludedCall(g, c)
        \/ AddLock(g)
        \/ AddAppend(g)
        \/ AddStore(g)
        \/ AddUnlock(g)
        \/ \E n \in 0..MaxSlots : ParseInfoCall(g, n)
        \/ InfoRead(g)
        \/ InfoScan(g)
        \/ ExclReturn(g)

ExclInit == InitCacheIdle /\ InitTermIdle /\ InitParseIdle /\ InitKindIdle /\ InitExcl

SpecExcl == ExclInit /\ [][NextExcl]_vars

\* C27: every read of the exclusion list by ParseInfo and findAssignments, like
\* every append by AddExcluded, happens while the Parser's mutex is held: an
\* AddExcluded running concurrently with a ParseInfo never touches the list
\* unsynchronized, and the scan works on a list that AddExcluded stored.
C27_ExclusionListUnderMutex ==
    /\ ~xUnsync
    /\ \A g \in Goroutines :
          xPc[g] = "scan" =>
              \E n \in 0..Len(xExcluded) : xSeen[g] = SubSeq(xExcluded, 1, n)


====
